---------------------------- MODULE Spec2Model ----------------------------
(***************************************************************************)
(* A model of mathy, an interpreter for a small numeric scripting          *)
(* language: lexer (src/src/lexer.rs), parser (src/src/parser.rs) and      *)
(* tree-walking interpreter (src/src/interpreter.rs).                      *)
(*                                                                         *)
(* Text is a sequence of one-character strings.  A Rust f64 is modelled    *)
(* as an exact fraction n/d in lowest terms with d >= 0; d = 0 encodes     *)
(* the IEEE specials (1/0 = inf, -1/0 = -inf, 0/0 = NaN).  Rounding and    *)
(* the sign of zero are not modelled: every scalar the model computes is   *)
(* a value f64 arithmetic computes exactly.                                *)
(***************************************************************************)
EXTENDS Integers, Sequences, FiniteSets, TLC

VARIABLES
    content, index, tokens,        \* struct Lexer (file_path plays no role)
    col, line, lex_st,             \* locals of Lexer::tokenize and its outcome
    call, ret,                     \* a pure function's arguments and its result
    parsed, variables, functions,  \* struct Interpreter
    frames, out, status            \* execute_block activations, stdout, outcome

vars == <<content, index, tokens, col, line, lex_st, call, ret,
          parsed, variables, functions, frames, out, status>>

lexer_vars == <<content, index, tokens, col, line, lex_st>>
pure_vars == <<call, ret>>
interp_vars == <<parsed, variables, functions, frames, out, status>>

None == [st |-> "none"]

(***************************************************************************)
(* Generic helpers.                                                        *)
(***************************************************************************)
Abs(x) == IF x < 0 THEN -x ELSE x

Sgn(x) == IF x < 0 THEN -1 ELSE IF x > 0 THEN 1 ELSE 0

RECURSIVE Gcd(_, _)
Gcd(a, b) == IF b = 0 THEN a ELSE Gcd(b, a % b)

RECURSIVE IPow(_, _)
IPow(b, k) == IF k = 0 THEN 1 ELSE b * IPow(b, k - 1)

RECURSIVE Concat(_)
Concat(ss) == IF ss = <<>> THEN <<>> ELSE Head(ss) \o Concat(Tail(ss))

Ok(v) == [st |-> "ok", v |-> v]
Err(kind, name) == [st |-> "err", v |-> <<kind, name>>]
Panic(msg) == [st |-> "panic", v |-> <<msg>>]

(***************************************************************************)
(* f64 and enum Data (interpreter.rs 46-50).                               *)
(***************************************************************************)
Float(n, d) ==
    IF d = 0 THEN [k |-> "Float", n |-> Sgn(n), d |-> 0]
    ELSE LET g == Gcd(Abs(n), Abs(d))
         IN [k |-> "Float", n |-> (Sgn(d) * n) \div g, d |-> Abs(d) \div g]

List(items) == [k |-> "List", items |-> items]

Num(i) == Float(i, 1)
NaN == Float(0, 0)
Inf == Float(1, 0)

f64_add(a, b) ==
    IF a = NaN \/ b = NaN THEN NaN
    ELSE IF a.d = 0 /\ b.d = 0 THEN (IF a.n = b.n THEN a ELSE NaN)
    ELSE IF a.d = 0 THEN a
    ELSE IF b.d = 0 THEN b
    ELSE Float(a.n * b.d + b.n * a.d, a.d * b.d)

f64_neg(a) == Float(-a.n, a.d)

f64_sub(a, b) == f64_add(a, f64_neg(b))

f64_mul(a, b) == Float(a.n * b.n, a.d * b.d)

f64_div(a, b) ==
    IF b.n < 0 THEN Float(-(a.n * b.d), a.d * (-b.n))
    ELSE Float(a.n * b.d, a.d * b.n)

\* f64::powf for the exponents the model uses: integers, and the specials.
\* A finite non-integer exponent of a positive finite base has no exact
\* fraction; no input of the model reaches that case.
f64_powf(a, b) ==
    IF b = Num(0) \/ a = Num(1) THEN Num(1)
    ELSE IF a = NaN \/ b = NaN THEN NaN
    ELSE IF b.d = 1 THEN
        IF b.n > 0 THEN Float(IPow(a.n, b.n), IPow(a.d, b.n))
        ELSE f64_div(Num(1), Float(IPow(a.n, -b.n), IPow(a.d, -b.n)))
    ELSE IF b.d = 0 THEN
        IF Abs(a.n) = a.d THEN Num(1)
        ELSE IF (Abs(a.n) > a.d) = (b.n > 0) THEN Inf ELSE Num(0)
    ELSE IF a.n < 0 THEN NaN
    ELSE IF a.n = 0 THEN (IF b.n > 0 THEN Num(0) ELSE Inf)
    ELSE IF a.d = 0 THEN (IF b.n > 0 THEN Inf ELSE Num(0))
    ELSE CHOOSE x \in {} : TRUE

\* i <= max on f64 (interpreter.rs 387)
f64_le(a, b) ==
    IF a = NaN \/ b = NaN THEN FALSE
    ELSE IF a.d = 0 /\ b.d = 0 THEN a.n <= b.n
    ELSE a.n * b.d <= b.n * a.d

(***************************************************************************)
(* fn apply_op (interpreter.rs 77-130).  A nested failure is unwrapped     *)
(* with unwrap_or_else(panic!), so it leaves apply_op as a panic and not   *)
(* as an Err value.                                                        *)
(***************************************************************************)
Operators == <<"Plus", "Minus", "Multi", "Div", "Pow">>

scalar_op(left_val, right_val, op) ==
    CASE op = "Plus" -> f64_add(left_val, right_val)
      [] op = "Minus" -> f64_sub(left_val, right_val)
      [] op = "Multi" -> f64_mul(left_val, right_val)
      [] op = "Div" -> f64_div(left_val, right_val)
      [] op = "Pow" -> f64_powf(left_val, right_val)

\* .map(..).map(unwrap_or_else(panic!)).collect() over a vector of results
collect_unwrap(rs) ==
    IF \E i \in DOMAIN rs : rs[i].st # "ok" THEN Panic("unwrap")
    ELSE Ok(List([i \in DOMAIN rs |-> rs[i].v]))

RECURSIVE apply_op(_, _, _)

\* An apply_op that broadcasts a scalar on the left with the operands
\* swapped.  C6 depends on the operand order of apply_op.
apply_op_swapped(left, right, op) ==
    IF left.k = "List" /\ right.k = "List" THEN
        IF Len(left.items) # Len(right.items)
        THEN Err("InvalidListLength", "")
        ELSE collect_unwrap([i \in 1..Len(left.items) |->
                                apply_op(left.items[i], right.items[i], op)])
    ELSE IF left.k = "List" THEN
        collect_unwrap([i \in 1..Len(left.items) |->
                           apply_op(left.items[i], right, op)])
    ELSE IF right.k = "List" THEN
        collect_unwrap([i \in 1..Len(right.items) |->
                           apply_op(right.items[i], left, op)])
    ELSE Ok(scalar_op(left, right, op))

\* fn apply_op (interpreter.rs 77-130)
apply_op(left, right, op) ==
    IF left.k = "List" /\ right.k = "List" THEN
        IF Len(left.items) # Len(right.items)
        THEN Err("InvalidListLength", "")
        ELSE collect_unwrap([i \in 1..Len(left.items) |->
                                apply_op(left.items[i], right.items[i], op)])
    ELSE IF left.k = "List" THEN
        collect_unwrap([i \in 1..Len(left.items) |->
                           apply_op(left.items[i], right, op)])
    ELSE IF right.k = "List" THEN
        collect_unwrap([i \in 1..Len(right.items) |->
                           apply_op(left, right.items[i], op)])
    ELSE Ok(scalar_op(left, right, op))


(***************************************************************************)
(* The lexer (lexer.rs).  A token is its TokenType, the text an            *)
(* Ident/Keyword/FloatLiteral/Unknown carries, and the two numbers of its  *)
(* TokenLocation(file, col, row) in the order of the struct's fields.      *)
(***************************************************************************)
Token(type, text, c, r) == [type |-> type, text |-> text, col |-> c, row |-> r]

DigitChars == <<"0", "1", "2", "3", "4", "5", "6", "7", "8", "9">>

\* char::is_digit(10) / is_ascii_digit
is_digit(c) == \E i \in DOMAIN DigitChars : DigitChars[i] = c

\* char::is_ascii_alphabetic
is_ascii_alphabetic(c) ==
    c \in {"a", "b", "c", "d", "e", "f", "g", "h", "i", "j", "k", "l", "m",
           "n", "o", "p", "q", "r", "s", "t", "u", "v", "w", "x", "y", "z",
           "A", "B", "C", "D", "E", "F", "G", "H", "I", "J", "K", "L", "M",
           "N", "O", "P", "Q", "R", "S", "T", "U", "V", "W", "X", "Y", "Z"}

\* char::is_whitespace, the ASCII members
is_whitespace(c) == c \in {" ", "\t", "\r", "\n"}

Keywords ==
    {<<"f", "r", "o", "m">>, <<"t", "o">>, <<"a", "s">>, <<"w", "i", "t", "h">>,
     <<"s", "t", "e", "p">>, <<"f", "o", "r">>, <<"i", "n">>}

\* The single-character tokens of Lexer::tokenize (lexer.rs 227-310)
SymbolType(c) ==
    CASE c = "=" -> "Equals"
      [] c = "+" -> "Plus"
      [] c = "-" -> "Minus"
      [] c = "*" -> "Multi"
      [] c = "," -> "Comma"
      [] c = "/" -> "Div"
      [] c = "#" -> "Comment"
      [] c = "(" -> "LeftParen"
      [] c = ")" -> "RightParen"
      [] c = "{" -> "LeftBrace"
      [] c = "}" -> "RightBrace"
      [] c = "[" -> "LeftBracket"
      [] c = "]" -> "RightBracket"
      [] c = "^" -> "Circumflex"
      [] OTHER -> "Unknown"

Contains(s, c) == \E i \in DOMAIN s : s[i] = c

\* The while loop of Lexer::parse_text (lexer.rs 140-146): the index after
\* the last character of the word that starts at i.
RECURSIVE text_end(_, _)
text_end(s, i) ==
    IF i < Len(s) /\ (is_ascii_alphabetic(s[i + 1]) \/ is_digit(s[i + 1])
                        \/ s[i + 1] = "_")
    THEN text_end(s, i + 1)
    ELSE i

\* Lexer::parse_text (lexer.rs 135-160), called as parse_text(a, b): the
\* token pushed, the new index and col_delta.  Its parameters are (col, row).
parse_text(s, i, c, r) ==
    LET e == text_end(s, i + 1)
        buf == SubSeq(s, i + 1, e)
    IN [st |-> "ok",
        token |-> Token(IF buf \in Keywords THEN "Keyword" ELSE "Ident",
                        buf, c, r),
        index |-> e,
        col_delta |-> e - (i + 1)]

\* The while loop of Lexer::parse_float (lexer.rs 175-194) from index i with
\* the buffer, the period flag and col_delta so far.
RECURSIVE float_loop(_, _, _, _, _)
float_loop(s, i, buf, period, col_delta) ==
    IF i < Len(s) /\ (is_digit(s[i + 1]) \/ s[i + 1] = "." \/ s[i + 1] = "_")
    THEN IF s[i + 1] = "_" THEN float_loop(s, i + 1, buf, period, col_delta + 1)
         ELSE IF s[i + 1] = "." /\ period THEN [st |-> "err"]
         ELSE float_loop(s, i + 1, Append(buf, s[i + 1]),
                         period \/ s[i + 1] = ".", col_delta + 1)
    ELSE [st |-> "ok", buf |-> buf, index |-> i, col_delta |-> col_delta]

\* A parse_float that takes one character and never fails.  C15 depends on
\* the loop of parse_float and on its failure at a second '.'.
parse_float_single(s, i, r, c) ==
    [st |-> "ok",
     token |-> Token("FloatLiteral", <<s[i + 1]>>, c, r),
     index |-> i + 1,
     col_delta |-> 0]

\* Lexer::parse_float (lexer.rs 162-206), called as parse_float(a, b).  Its
\* parameters are (row, col).
parse_float(s, i, r, c) ==
    LET first == s[i + 1]
        l == float_loop(s, i + 1,
                        IF first = "." THEN <<"0", ".">> ELSE <<first>>,
                        first = ".", 0)
    IN IF l.st = "err" THEN [st |-> "err"]
       ELSE [st |-> "ok",
             token |-> Token("FloatLiteral",
                             IF Contains(l.buf, ".") THEN l.buf
                             ELSE l.buf \o <<".", "0">>,
                             c, r),
             index |-> l.index,
             col_delta |-> l.col_delta]

(***************************************************************************)
(* Lexer::tokenize (lexer.rs 208-325): one action per branch of the loop   *)
(* body, each with the col += 1 that ends the iteration.                   *)
(***************************************************************************)
Lexing == lex_st = "run" /\ index < Len(content)

Cur == content[index + 1]

LexNewline ==
    /\ Lexing /\ Cur = "\n"
    /\ tokens' = Append(tokens, Token("Newline", <<>>, col + 1, line + 1))
    /\ line' = line + 1
    /\ col' = 0
    /\ index' = index + 1
    /\ UNCHANGED <<content, lex_st, pure_vars, interp_vars>>

LexWhitespace ==
    /\ Lexing /\ Cur # "\n" /\ is_whitespace(Cur)
    /\ index' = index + 1
    /\ col' = col + 1
    /\ UNCHANGED <<content, tokens, line, lex_st, pure_vars, interp_vars>>

LexText ==
    /\ Lexing /\ (is_ascii_alphabetic(Cur) \/ Cur = "_")
    /\ LET t == parse_text(content, index, line + 1, col + 1)
       IN /\ tokens' = Append(tokens, t.token)
          /\ index' = t.index
          /\ col' = col + t.col_delta + 1
    /\ UNCHANGED <<content, line, lex_st, pure_vars, interp_vars>>

LexFloat ==
    /\ Lexing /\ (Cur = "." \/ is_digit(Cur))
    /\ LET t == parse_float(content, index, line + 1, col + 1)
       IN IF t.st = "err"
          THEN /\ lex_st' = "err"
               /\ UNCHANGED <<tokens, index, col>>
          ELSE /\ tokens' = Append(tokens, t.token)
               /\ index' = t.index
               /\ col' = col + t.col_delta + 1
               /\ UNCHANGED lex_st
    /\ UNCHANGED <<content, line, pure_vars, interp_vars>>

LexSymbol ==
    /\ Lexing /\ ~is_whitespace(Cur) /\ ~is_ascii_alphabetic(Cur)
    /\ Cur # "_" /\ Cur # "." /\ ~is_digit(Cur)
    /\ tokens' = Append(tokens,
                        Token(SymbolType(Cur),
                              IF SymbolType(Cur) = "Unknown" THEN <<Cur>> ELSE <<>>,
                              col + 1, line + 1))
    /\ index' = index + 1
    /\ col' = col + 1
    /\ UNCHANGED <<content, line, lex_st, pure_vars, interp_vars>>

LexDone ==
    /\ lex_st = "run" /\ index >= Len(content)
    /\ lex_st' = "ok"
    /\ UNCHANGED <<content, index, tokens, col, line, pure_vars, interp_vars>>

(***************************************************************************)
(* The parser (parser.rs).  enum Expr (parser.rs 16-23): Expr::Expr is     *)
(* BinExpr and Expr::List is ListExpr here.  A parse function returns      *)
(* [st |-> "ok", ..., index] with the parser's index after it, an Err of   *)
(* enum ParseError, or a panic (todo!).                                    *)
(***************************************************************************)
FloatLiteral(text) == [e |-> "FloatLiteral", text |-> text]
NegFloatLiteral(text) == [e |-> "NegFloatLiteral", text |-> text]
Ident(name) == [e |-> "Ident", name |-> name]
FunctionCall(name, args) == [e |-> "FunctionCall", name |-> name, args |-> args]
BinExpr(left, op, right) == [e |-> "Expr", left |-> left, op |-> op, right |-> right]
ListExpr(exprs) == [e |-> "List", exprs |-> exprs]

\* A get_prec without tiers: every operator binds alike.  C1 depends on
\* the three tiers of get_prec.
get_prec_flat(op) == 1

\* fn get_prec (parser.rs 91-97)
get_prec(op) ==
    CASE op \in {"Plus", "Minus"} -> 1
      [] op \in {"Multi", "Div"} -> 2
      [] op = "Pow" -> 3

\* Parser::peek (parser.rs 108-114): the token type at index + offset, or
\* "None" past the end
peek_type(toks, i, offset) ==
    IF i + offset < Len(toks) THEN toks[i + offset + 1].type ELSE "None"

\* The match of parse_expr's loop (parser.rs 196-203)
token_operator(type) ==
    CASE type = "Plus" -> "Plus"
      [] type = "Minus" -> "Minus"
      [] type = "Multi" -> "Multi"
      [] type = "Div" -> "Div"
      [] type = "Circumflex" -> "Pow"
      [] OTHER -> "None"

PErr(kind) == [st |-> "err", err |-> kind]
POk(expr, i) == [st |-> "ok", expr |-> expr, index |-> i]

RECURSIVE parse_expr(_, _, _), parse_elements(_, _, _, _), parse_operators(_, _, _, _)

\* Expr::FunctionCall(ident, args) of the parsed arguments a (parser.rs 153)
call_expr(name, a) ==
    IF a.st # "ok" THEN a ELSE POk(FunctionCall(name, a.expr), a.index)

\* Expr::List(exprs) of the parsed elements a (parser.rs 179)
list_expr(a) ==
    IF a.st # "ok" THEN a ELSE POk(ListExpr(a.expr), a.index)

\* The match on the first token of parse_expr (parser.rs 128-182): left and
\* the index before the consume of line 184
primary_expr(toks, i, type) ==
    CASE type = "None" -> PErr("EOF")
      [] type = "FloatLiteral" -> POk(FloatLiteral(toks[i + 1].text), i)
      [] type = "Ident" ->
            IF peek_type(toks, i, 1) = "LeftParen"
            THEN call_expr(toks[i + 1].text,
                           parse_elements(toks, i + 2, <<>>, "RightParen"))
            ELSE POk(Ident(toks[i + 1].text), i)
      [] type = "Minus" ->
            IF peek_type(toks, i, 1) = "FloatLiteral"
            THEN POk(NegFloatLiteral(toks[i + 2].text), i + 1)
            ELSE PErr("MissingLiteral")
      [] type = "LeftParen" -> parse_expr(toks, i + 1, 1)
      [] type = "LeftBracket" ->
            list_expr(parse_elements(toks, i + 1, <<>>, "RightBracket"))
      [] OTHER -> PErr("UnexpectedToken")

\* self.consume()? after the primary (parser.rs 184), then the operator loop
after_primary(toks, primary, min_prec) ==
    IF primary.st # "ok" THEN primary
    ELSE IF primary.index >= Len(toks) THEN PErr("EOF")
    ELSE parse_operators(toks, primary.index + 1, primary.expr, min_prec)

\* Parser::parse_expr (parser.rs 126-218) at index i.  The primary
\* expression, then self.consume() (line 184), then the operator loop.
parse_expr(toks, i, min_prec) ==
    after_primary(toks, primary_expr(toks, i, peek_type(toks, i, 0)), min_prec)

\* exprs.push(self.parse_expr(1)?) (parser.rs 149-150, 175-176) and the
\* next turn of the loop
push_element(toks, acc, closing, x) ==
    IF x.st # "ok" THEN x
    ELSE parse_elements(toks, x.index, Append(acc, x.expr), closing)

\* The argument loop and the list-literal loop of parse_expr (parser.rs
\* 144-152, 170-178) up to, not including, the closing token: a ',' in front
\* of an element is consumed, then the element is parsed.
parse_elements(toks, i, acc, closing) ==
    IF peek_type(toks, i, 0) \in {"None", closing} THEN POk(acc, i)
    ELSE push_element(toks, acc, closing,
            parse_expr(toks, IF peek_type(toks, i, 0) = "Comma" THEN i + 1 ELSE i, 1))

\* left = Expr::Expr(Box::new(left), operator, Box::new(right)) (parser.rs
\* 212-216) and the next turn of the loop
fold_operand(toks, left, op, min_prec, right) ==
    IF right.st # "ok" THEN right
    ELSE parse_operators(toks, right.index, BinExpr(left, op, right.expr), min_prec)

\* The loop of parse_expr (parser.rs 189-217) with the operator op at i
parse_operator(toks, i, left, min_prec, op) ==
    IF op = "None" THEN POk(left, i)
    ELSE IF get_prec(op) < min_prec THEN POk(left, i)
    ELSE fold_operand(toks, left, op, min_prec,
                      parse_expr(toks, i + 1, get_prec(op) + 1))

\* The loop of parse_expr (parser.rs 189-217)
parse_operators(toks, i, left, min_prec) ==
    parse_operator(toks, i, left, min_prec, token_operator(peek_type(toks, i, 0)))

(***************************************************************************)
(* Statements: enum Parsed (parser.rs 38-46).  A Token kept in a node is   *)
(* reduced to its name.                                                    *)
(***************************************************************************)
Declaration(name, expr) == [p |-> "Declaration", name |-> name, expr |-> expr]
FunctionDecleration(name, parameters, expr) ==
    [p |-> "FunctionDecleration", name |-> name, parameters |-> parameters,
     expr |-> expr]
FromLoop(min, max, ident, step, block) ==
    [p |-> "FromLoop", min |-> min, max |-> max, ident |-> ident,
     step |-> step, block |-> block]
ForLoop(ident, list, block) ==
    [p |-> "ForLoop", ident |-> ident, list |-> list, block |-> block]
Block(block) == [p |-> "Block", block |-> block]
Destructuring(left, right) == [p |-> "Destructuring", left |-> left, right |-> right]
PrintExpr(expr) == [p |-> "PrintExpr", expr |-> expr]

SOk(node, i) == [st |-> "ok", node |-> node, index |-> i]

Kw(toks, i) == toks[i + 1].text

\* Parser::line_contains_equals (parser.rs 397-413) with the parser at i:
\* the last token of the input is never looked at.
line_contains_equals(toks, i) ==
    \E j \in 0..(Len(toks) - i - 2) :
        /\ toks[i + j + 1].type = "Equals"
        /\ \A m \in 0..(j - 1) : toks[i + m + 1].type \notin {"Newline", "Equals"}

\* Ok(Parsed::Declaration(ident, expr)) of the parsed expression x
\* (parser.rs 365-367)
declaration_of(name, x) ==
    IF x.st # "ok" THEN x ELSE SOk(Declaration(name, x.expr), x.index)

\* Parser::parse_declaration (parser.rs 363-368)
parse_declaration(toks, i) ==
    IF i + 2 > Len(toks) THEN PErr("EOF")
    ELSE declaration_of(toks[i + 1].text, parse_expr(toks, i + 2, 1))

\* The parameter loop of parse_function_declaration (parser.rs 375-383)
RECURSIVE parse_parameters(_, _, _)
parse_parameters(toks, i, acc) ==
    IF peek_type(toks, i, 0) \in {"None", "RightParen"}
    THEN [parameters |-> acc, index |-> i]
    ELSE parse_parameters(toks, i + 1,
                          IF toks[i + 1].type = "Ident"
                          THEN Append(acc, toks[i + 1].text) ELSE acc)

\* Ok(Parsed::FunctionDecleration(ident, parameters, expr)) of the parsed
\* body x (parser.rs 386-387)
function_declaration_of(name, parameters, x) ==
    IF x.st # "ok" THEN x
    ELSE SOk(FunctionDecleration(name, parameters, x.expr), x.index)

\* The two consumes after the parameters and the body (parser.rs 384-386)
function_body(toks, name, ps) ==
    IF ps.index + 2 > Len(toks) THEN PErr("EOF")
    ELSE function_declaration_of(name, ps.parameters,
                                 parse_expr(toks, ps.index + 2, 1))

\* Parser::parse_function_declaration (parser.rs 370-388)
parse_function_declaration(toks, i) ==
    IF i + 2 > Len(toks) THEN PErr("EOF")
    ELSE function_body(toks, toks[i + 1].text, parse_parameters(toks, i + 2, <<>>))

\* Ok(Parsed::PrintExpr(expr)) of the parsed expression x (parser.rs 392-394)
print_of(x) ==
    IF x.st # "ok" THEN x ELSE SOk(PrintExpr(x.expr), x.index)

\* Parser::parse_print (parser.rs 390-395)
parse_print(toks, i) == print_of(parse_expr(toks, i, 1))

\* The TokenType::Ident arm of Parser::parse and of Parser::parse_block
\* (parser.rs 419-437, 230-248), the same code twice
parse_ident_statement(toks, i) ==
    IF peek_type(toks, i, 1) = "Equals" THEN parse_declaration(toks, i)
    ELSE IF peek_type(toks, i, 1) = "LeftParen" /\ line_contains_equals(toks, i)
    THEN parse_function_declaration(toks, i)
    ELSE parse_print(toks, i)

\* let t = self.consume()?; then the keyword test (parser.rs 283-293,
\* 303-313, 315-325): the error, or "ok"
expect_keyword(toks, i, word) ==
    IF i >= Len(toks) THEN "EOF"
    ELSE IF toks[i + 1].type # "Keyword" THEN "Expected"
    ELSE IF Kw(toks, i) # word THEN "ExpectedGot"
    ELSE "ok"

\* The comment loop of parse_block (parser.rs 264-267): the index of the
\* next Newline, or the end
RECURSIVE skip_comment(_, _)
skip_comment(toks, i) ==
    IF peek_type(toks, i, 0) \notin {"None", "Newline"}
    THEN skip_comment(toks, i + 1)
    ELSE i

W_from == <<"f", "r", "o", "m">>
W_to == <<"t", "o">>
W_as == <<"a", "s">>
W_with == <<"w", "i", "t", "h">>
W_step == <<"s", "t", "e", "p">>
W_for == <<"f", "o", "r">>
W_in == <<"i", "n">>

RECURSIVE parse_block(_, _), parse_block_loop(_, _, _), parse_from_block(_, _)

\* The consume after the loop of parse_block (parser.rs 275-277)
block_end(toks, b) ==
    IF b.st # "ok" THEN b
    ELSE IF b.index >= Len(toks) THEN PErr("EOF")
    ELSE SOk(b.node, b.index + 1)

\* Parser::parse_block (parser.rs 220-278): consume one token, the loop up
\* to '}', consume one token.
parse_block(toks, i) ==
    IF i >= Len(toks) THEN PErr("EOF")
    ELSE block_end(toks, parse_block_loop(toks, i + 1, <<>>))

\* The statement arms of the match in parse_block (parser.rs 229-263, 272)
block_statement(toks, i, type) ==
    CASE type = "Ident" -> parse_ident_statement(toks, i)
      [] type = "Keyword" ->
            IF Kw(toks, i) # W_from THEN PErr("UnexpectedKeyword")
            ELSE parse_from_block(toks, i)
      [] type = "FloatLiteral" -> parse_print(toks, i)
      [] OTHER -> [st |-> "panic"]

\* block.push(parsed) (parser.rs 246, 260, 262) and the next turn of the loop
block_push(toks, block, stmt) ==
    IF stmt.st # "ok" THEN stmt
    ELSE parse_block_loop(toks, stmt.index, Append(block, stmt.node))

\* One turn of the loop of parse_block (parser.rs 224-274) at a token of
\* the given type
block_turn(toks, i, block, type) ==
    IF type \in {"None", "RightBrace"} THEN SOk(block, i)
    ELSE IF type = "Comment" THEN parse_block_loop(toks, skip_comment(toks, i), block)
    ELSE IF type = "Newline" THEN parse_block_loop(toks, i + 1, block)
    ELSE block_push(toks, block, block_statement(toks, i, type))

\* The loop of parse_block (parser.rs 224-274)
parse_block_loop(toks, i, block) ==
    block_turn(toks, i, block, peek_type(toks, i, 0))

\* Ok(Parsed::FromLoop(min, max, ident, step, block)) of the parsed block b
\* (parser.rs 358-360)
from_loop_of(min, max, ident, step, b) ==
    IF b.st # "ok" THEN b
    ELSE SOk(FromLoop(min, max, ident, step, b.node), b.index)

\* self.consume()? (parser.rs 356) and self.parse_block()? (parser.rs 358)
\* after the step clause
from_block(toks, min, max, ident, clause) ==
    IF clause.st # "ok" THEN clause
    ELSE IF clause.index >= Len(toks) THEN PErr("EOF")
    ELSE from_loop_of(min, max, ident, clause.expr,
                      parse_block(toks, clause.index + 1))

\* self.consume()? after the step expression (parser.rs 339)
step_of(toks, x) ==
    IF x.st # "ok" THEN x
    ELSE IF x.index >= Len(toks) THEN PErr("EOF")
    ELSE POk(x.expr, x.index + 1)

\* The step clause of parse_from_block (parser.rs 327-354) with the parser
\* at j: the step and the index before line 356
step_clause(toks, j) ==
    IF ~(toks[j + 1].type = "Keyword" /\ Kw(toks, j) = W_with)
    THEN POk(FloatLiteral(<<"1", ".", "0">>), j)
    ELSE IF j + 1 >= Len(toks) THEN PErr("EOF")
    ELSE IF toks[j + 2].type # "Keyword" THEN PErr("ExpectedGotToken")
    ELSE IF Kw(toks, j + 1) # W_step THEN PErr("ExpectedGot")
    ELSE step_of(toks, parse_expr(toks, j + 2, 1))

\* After the loop variable of parse_from_block (parser.rs 326-327)
from_ident(toks, min, max, ident) ==
    IF ident.st # "ok" THEN ident
    ELSE IF ident.index >= Len(toks) THEN PErr("EOF")
    ELSE from_block(toks, min, max, ident.expr, step_clause(toks, ident.index))

\* After the upper bound of parse_from_block: the keyword 'as' and the
\* loop variable (parser.rs 315-326)
from_max(toks, min, max) ==
    IF max.st # "ok" THEN max
    ELSE IF expect_keyword(toks, max.index, W_as) # "ok"
    THEN PErr(expect_keyword(toks, max.index, W_as))
    ELSE from_ident(toks, min, max.expr, parse_expr(toks, max.index + 1, 1))

\* After the lower bound of parse_from_block: the keyword 'to' and the
\* upper bound (parser.rs 303-314)
from_min(toks, min) ==
    IF min.st # "ok" THEN min
    ELSE IF expect_keyword(toks, min.index, W_to) # "ok"
    THEN PErr(expect_keyword(toks, min.index, W_to))
    ELSE from_max(toks, min.expr, parse_expr(toks, min.index + 1, 1))

\* Parser::parse_from_block (parser.rs 300-361)
parse_from_block(toks, i) == from_min(toks, parse_expr(toks, i + 1, 1))

\* Ok(Parsed::ForLoop(ident, list, block)) of the parsed block b
\* (parser.rs 295-297)
for_loop_of(ident, list, b) ==
    IF b.st # "ok" THEN b ELSE SOk(ForLoop(ident, list, b.node), b.index)

\* After the list of parse_for_block (parser.rs 294-295)
for_list(toks, ident, list) ==
    IF list.st # "ok" THEN list
    ELSE for_loop_of(ident, list.expr, parse_block(toks, list.index))

\* After the loop variable of parse_for_block: the keyword 'in' and the
\* list (parser.rs 283-294)
for_ident(toks, ident) ==
    IF ident.st # "ok" THEN ident
    ELSE IF expect_keyword(toks, ident.index, W_in) # "ok"
    THEN PErr(expect_keyword(toks, ident.index, W_in))
    ELSE for_list(toks, ident.expr, parse_expr(toks, ident.index + 1, 1))

\* Parser::parse_for_block (parser.rs 280-298)
parse_for_block(toks, i) == for_ident(toks, parse_expr(toks, i + 1, 1))

\* Ok(Parsed::Destructuring(left, right)) of the parsed right side
\* (parser.rs 459-460)
destructuring_of(left, right) ==
    IF right.st # "ok" THEN right
    ELSE SOk(Destructuring(left, right.expr), right.index)

\* self.consume()? between the two sides (parser.rs 458)
destructuring_left(toks, left) ==
    IF left.st # "ok" THEN left
    ELSE IF left.index >= Len(toks) THEN PErr("EOF")
    ELSE destructuring_of(left.expr, parse_expr(toks, left.index + 1, 1))

\* The TokenType::LeftBracket arm of Parser::parse (parser.rs 455-465)
parse_bracket_statement(toks, i) ==
    IF line_contains_equals(toks, i)
    THEN destructuring_left(toks, parse_expr(toks, i, 1))
    ELSE parse_print(toks, i)

\* Parsed::Block(self.parse_block()?) (parser.rs 467-468)
block_of(b) ==
    IF b.st # "ok" THEN b ELSE SOk(Block(b.node), b.index)

\* The statement arms of the match in Parser::parse (parser.rs 418-469, 478)
statement(toks, i, type) ==
    CASE type = "Ident" -> parse_ident_statement(toks, i)
      [] type = "Keyword" ->
            IF Kw(toks, i) = W_from THEN parse_from_block(toks, i)
            ELSE IF Kw(toks, i) = W_for THEN parse_for_block(toks, i)
            ELSE PErr("ExpectedGot")
      [] type = "LeftBracket" -> parse_bracket_statement(toks, i)
      [] type \in {"FloatLiteral", "LeftParen"} -> parse_print(toks, i)
      [] type = "LeftBrace" -> block_of(parse_block(toks, i))
      [] OTHER -> [st |-> "panic"]

RECURSIVE parse_loop(_, _, _)

\* self.parsed.push(parsed) (parser.rs 436, 452, 464, 466, 468) and the
\* next turn of the loop
parsed_push(toks, acc, stmt) ==
    IF stmt.st # "ok" THEN stmt
    ELSE parse_loop(toks, stmt.index, Append(acc, stmt.node))

\* One turn of the loop of Parser::parse (parser.rs 416-480) at a token of
\* the given type.  At a Comment token its loop (parser.rs 471-473)
\* consumes nothing, and the outer loop meets the same token again: "hang".
parse_turn(toks, i, acc, type) ==
    IF type = "None" THEN [st |-> "ok", parsed |-> acc]
    ELSE IF type = "Comment" THEN [st |-> "hang"]
    ELSE IF type = "Newline" THEN parse_loop(toks, i + 1, acc)
    ELSE parsed_push(toks, acc, statement(toks, i, type))

\* Parser::parse (parser.rs 415-487) from index i with self.parsed = acc
parse_loop(toks, i, acc) == parse_turn(toks, i, acc, peek_type(toks, i, 0))

parse(toks) == parse_loop(toks, 0, <<>>)

(***************************************************************************)
(* f64 <-> text.  str::parse::<f64> on the texts the lexer and             *)
(* f64::to_string produce (no exponent), and f64::to_string on fractions   *)
(* with at most MaxFracDigits decimals (longer expansions are cut there;   *)
(* no input of the model has one).                                         *)
(***************************************************************************)
MaxFracDigits == 6

digit_value(c) == CHOOSE i \in 0..9 : DigitChars[i + 1] = c

RECURSIVE digits_value(_)
digits_value(s) ==
    IF s = <<>> THEN 0
    ELSE 10 * digits_value(SubSeq(s, 1, Len(s) - 1)) + digit_value(s[Len(s)])

RECURSIVE nat_to_string(_)
nat_to_string(n) ==
    IF n < 10 THEN <<DigitChars[n + 1]>>
    ELSE Append(nat_to_string(n \div 10), DigitChars[(n % 10) + 1])

\* the decimals of r/d, 0 <= r < d
RECURSIVE frac_to_string(_, _, _)
frac_to_string(r, d, k) ==
    IF r = 0 \/ k = 0 THEN <<>>
    ELSE <<DigitChars[((10 * r) \div d) + 1]>>
             \o frac_to_string((10 * r) % d, d, k - 1)

\* f64::to_string / Display (interpreter.rs 55, 60; parser.rs 27)
f64_to_string(a) ==
    IF a = NaN THEN <<"N", "a", "N">>
    ELSE IF a.d = 0 THEN (IF a.n < 0 THEN <<"-">> ELSE <<>>) \o <<"i", "n", "f">>
    ELSE LET m == Abs(a.n)
             whole == nat_to_string(m \div a.d)
             frac == frac_to_string(m % a.d, a.d, MaxFracDigits)
         IN (IF a.n < 0 THEN <<"-">> ELSE <<>>)
                \o whole \o (IF frac = <<>> THEN <<>> ELSE <<".">> \o frac)

\* str::parse::<f64> (interpreter.rs 241-245, 252-254): Ok(float), or
\* "invalid"
parse_f64(text) ==
    LET neg == text # <<>> /\ text[1] = "-"
        body == IF text # <<>> /\ text[1] \in {"-", "+"} THEN Tail(text) ELSE text
        dots == {i \in DOMAIN body : body[i] = "."}
        dot == IF dots = {} THEN Len(body) + 1 ELSE CHOOSE i \in dots : TRUE
        whole == SubSeq(body, 1, dot - 1)
        frac == SubSeq(body, dot + 1, Len(body))
        sign == IF neg THEN -1 ELSE 1
    IN IF body = <<"N", "a", "N">> THEN Ok(NaN)
       ELSE IF body = <<"i", "n", "f">> THEN Ok(Float(sign, 0))
       ELSE IF /\ Cardinality(dots) <= 1
               /\ \A i \in DOMAIN body : is_digit(body[i]) \/ body[i] = "."
               /\ \E i \in DOMAIN body : is_digit(body[i])
       THEN Ok(Float(sign * (digits_value(whole) * IPow(10, Len(frac))
                                + digits_value(frac)),
                     IPow(10, Len(frac))))
       ELSE [st |-> "invalid"]

\* impl Into<Expr> for Data (interpreter.rs 37-44)
RECURSIVE data_into_expr(_)
data_into_expr(data) ==
    IF data.k = "Float" THEN FloatLiteral(f64_to_string(data))
    ELSE ListExpr([i \in DOMAIN data.items |-> data_into_expr(data.items[i])])

\* impl Display for Data (interpreter.rs 52-75)
RECURSIVE data_to_string(_)
data_to_string(data) ==
    IF data.k = "Float" THEN f64_to_string(data)
    ELSE <<"[">>
           \o Concat([i \in DOMAIN data.items |->
                         data_to_string(data.items[i])
                             \o (IF i # Len(data.items) THEN <<",", " ">> ELSE <<>>)])
           \o <<"]">>

(***************************************************************************)
(* The interpreter (interpreter.rs).  variables and functions are the      *)
(* HashMaps of struct Interpreter, as functions on the set of their keys.  *)
(***************************************************************************)
MapInsert(m, key, v) == [x \in DOMAIN m \cup {key} |-> IF x = key THEN v ELSE m[x]]
MapRemove(m, key) == [x \in DOMAIN m \ {key} |-> m[x]]

N_PI == <<"P", "I">>
N_TAU == <<"T", "A", "U">>
N_GLR == <<"G", "L", "R">>
N_sin == <<"s", "i", "n">>
N_cos == <<"c", "o", "s">>
N_tan == <<"t", "a", "n">>

\* std::f64::consts::PI and the golden ratio literal (interpreter.rs 5,
\* 167), cut to fractions of a few decimals: 3.140625 and 1.618
f64_PI == Float(201, 64)
f64_GLR == Float(809, 500)

\* f64::sin, cos, tan have no exact fractions; the model takes the
\* half-angle forms in t = the argument, which keep sin, cos and tan apart
\* and tan = sin / cos.
f64_sin(t) == f64_div(f64_mul(Num(2), t), f64_add(Num(1), f64_mul(t, t)))
f64_cos(t) == f64_div(f64_sub(Num(1), f64_mul(t, t)), f64_add(Num(1), f64_mul(t, t)))
f64_tan(t) == f64_div(f64_mul(Num(2), t), f64_sub(Num(1), f64_mul(t, t)))

trig(name, x) ==
    CASE name = N_sin -> f64_sin(x)
      [] name = N_cos -> f64_cos(x)
      [] name = N_tan -> f64_tan(x)

\* fn apply_func (interpreter.rs 132-142) with func the method `name`
RECURSIVE apply_func(_, _)
apply_func(data, name) ==
    IF data.k = "Float" THEN trig(name, data)
    ELSE List([i \in DOMAIN data.items |-> apply_func(data.items[i], name)])

\* Interpreter::get_variable (interpreter.rs 163-176): <<data>> or <<>>
get_variable(vs, name) ==
    CASE name = N_PI -> <<f64_PI>>
      [] name = N_TAU -> <<f64_mul(f64_PI, Num(2))>>
      [] name = N_GLR -> <<f64_GLR>>
      [] OTHER -> IF name \in DOMAIN vs THEN <<vs[name]>> ELSE <<>>

\* the first (parameter, argument) pair of parameters.iter().zip(args) whose
\* parameter is name (interpreter.rs 187-192): <<argument>> or <<>>
zip_lookup(parameters, args, name) ==
    LET n == IF Len(parameters) < Len(args) THEN Len(parameters) ELSE Len(args)
        hits == {i \in 1..n : parameters[i] = name}
    IN IF hits = {} THEN <<>>
       ELSE <<args[CHOOSE i \in hits : \A j \in hits : i <= j]>>

\* exprs.iter().map(f).unwrap_or_else(panic!).collect() (interpreter.rs
\* 216-224, 294-300)
unwrap_all(rs) ==
    IF \E i \in DOMAIN rs : rs[i].st # "ok" THEN Panic("unwrap")
    ELSE Ok([i \in DOMAIN rs |-> rs[i].v])

\* Ok(Expr::Expr(left, op, right)) of the two transformed sides
\* (interpreter.rs 209-213)
transformed_expr(left_, op, right_) ==
    IF left_.st # "ok" THEN left_
    ELSE IF right_.st # "ok" THEN right_
    ELSE Ok(BinExpr(left_.v, op, right_.v))

\* Ok(Expr::List(exprs)) of the transformed elements (interpreter.rs 215-227)
transformed_list(r) ==
    IF r.st # "ok" THEN r ELSE Ok(ListExpr(r.v))

\* Interpreter::transform_fn_expr (interpreter.rs 178-230)
RECURSIVE transform_fn_expr(_, _, _, _, _)
transform_fn_expr(vs, fs, parameters, args, expr) ==
    CASE expr.e = "Ident" ->
            IF zip_lookup(parameters, args, expr.name) # <<>>
            THEN Ok(zip_lookup(parameters, args, expr.name)[1])
            ELSE IF get_variable(vs, expr.name) # <<>>
            THEN Ok(data_into_expr(get_variable(vs, expr.name)[1]))
            ELSE Err("UndefinedVariable", expr.name)
      [] expr.e = "FunctionCall" ->
            IF expr.name \in DOMAIN fs
            THEN transform_fn_expr(vs, fs, fs[expr.name].parameters, expr.args,
                                   fs[expr.name].expr)
            ELSE Err("UndefinedFunction", expr.name)
      [] expr.e = "Expr" ->
            transformed_expr(
                transform_fn_expr(vs, fs, parameters, args, expr.left),
                expr.op,
                transform_fn_expr(vs, fs, parameters, args, expr.right))
      [] expr.e = "List" ->
            transformed_list(unwrap_all([i \in DOMAIN expr.exprs |->
                transform_fn_expr(vs, fs, parameters, args, expr.exprs[i])]))
      [] expr.e \in {"FloatLiteral", "NegFloatLiteral"} -> Ok(expr)

\* float.parse::<f64>() with its Err arm unreachable!() (interpreter.rs
\* 241-245)
float_value(r) ==
    IF r.st = "ok" THEN r ELSE Panic("unreachable")

\* -float.parse::<f64>() (interpreter.rs 252-255)
neg_float_value(r) ==
    IF r.st = "ok" THEN Ok(f64_mul(Num(-1), r.v)) ELSE Panic("unreachable")

\* apply_op(left, right, op) of the two evaluated sides (interpreter.rs
\* 246-251)
expr_value(left, right, op) ==
    IF left.st # "ok" THEN left
    ELSE IF right.st # "ok" THEN right
    ELSE apply_op(left.v, right.v, op)

\* apply_func(arg, f64::sin | cos | tan) of the evaluated argument
\* (interpreter.rs 262-264, 270-272, 278-280)
func_value(arg, name) ==
    IF arg.st # "ok" THEN arg ELSE Ok(apply_func(arg.v, name))

RECURSIVE evaluate_expr(_, _, _)

\* self.evaluate_expr(&parsable) of the transformed body (interpreter.rs
\* 289-290)
call_value(vs, fs, parsable) ==
    IF parsable.st # "ok" THEN parsable ELSE evaluate_expr(vs, fs, parsable.v)

\* Ok(Data::List(data)) of the evaluated elements (interpreter.rs 293-302)
list_value(r) ==
    IF r.st # "ok" THEN r ELSE Ok(List(r.v))

\* Interpreter::evaluate_expr (interpreter.rs 232-305)
evaluate_expr(vs, fs, expr) ==
    CASE expr.e = "Ident" ->
            IF get_variable(vs, expr.name) # <<>>
            THEN Ok(get_variable(vs, expr.name)[1])
            ELSE Err("UndefinedVariable", expr.name)
      [] expr.e = "FloatLiteral" -> float_value(parse_f64(expr.text))
      [] expr.e = "Expr" ->
            expr_value(evaluate_expr(vs, fs, expr.left),
                       evaluate_expr(vs, fs, expr.right), expr.op)
      [] expr.e = "NegFloatLiteral" -> neg_float_value(parse_f64(expr.text))
      [] expr.e = "FunctionCall" ->
            IF expr.name \in {N_sin, N_cos, N_tan} THEN
                IF Len(expr.args) > 1 THEN Err("InvalidArguments", expr.name)
                ELSE IF Len(expr.args) = 0 THEN Panic("index out of bounds")
                ELSE func_value(evaluate_expr(vs, fs, expr.args[1]), expr.name)
            ELSE IF expr.name \notin DOMAIN fs
            THEN Err("UndefinedFunction", expr.name)
            ELSE IF Len(expr.args) # Len(fs[expr.name].parameters)
            THEN Err("InvalidArguments", expr.name)
            ELSE call_value(vs, fs,
                    transform_fn_expr(vs, fs, fs[expr.name].parameters,
                                      expr.args, fs[expr.name].expr))
      [] expr.e = "List" ->
            list_value(unwrap_all([i \in DOMAIN expr.exprs |->
                                      evaluate_expr(vs, fs, expr.exprs[i])]))

\* A clean_scope that removes nothing.  C3 depends on clean_scope.
clean_scope_none(m, scope) == m

\* Interpreter::clean_scope (interpreter.rs 307-312): the two maps after it
clean_scope_map(m, scope) ==
    [x \in DOMAIN m \ {scope[i] : i \in DOMAIN scope} |-> m[x]]

\* A function_exits that knows the declared functions only.  C4 depends on
\* the built-in names of function_exits.
function_declared(fs, name) == name \in DOMAIN fs

\* Interpreter::function_exits (interpreter.rs 314-319)
function_exits(fs, name) ==
    name \in {N_sin, N_cos, N_tan} \/ name \in DOMAIN fs

(***************************************************************************)
(* Interpreter::execute_block (interpreter.rs 321-449).  frames is the     *)
(* stack of its activations, the innermost last: the block, the index      *)
(* `current`, the Scope collected so far, and ctx, the caller that waits   *)
(* for it (interpret, a Block statement, or a loop with its locals).  One  *)
(* action per arm of the match; a Block or a loop is an arm up to its      *)
(* call of execute_block, and an arm from the return of that call.  An     *)
(* Err or a panic ends the run where it happens (status), as `?` does.     *)
(***************************************************************************)
Running == status.st = "run" /\ frames # <<>>

Top == frames[Len(frames)]

Stmt == Top.block[Top.current + 1]

At(kind) == Running /\ Top.current < Len(Top.block) /\ Stmt.p = kind

Returning(c) == Running /\ Top.current >= Len(Top.block) /\ Top.ctx.c = c

Frame(block, ctx) == [block |-> block, current |-> 0, scope |-> <<>>, ctx |-> ctx]

\* current += 1 in the innermost activation, after pushing names on its scope
Advance(names) ==
    [frames EXCEPT ![Len(frames)] =
        [Top EXCEPT !.current = @ + 1, !.scope = @ \o names]]

\* the innermost activation has returned: current += 1 in its caller
Return ==
    LET below == SubSeq(frames, 1, Len(frames) - 1)
    IN [below EXCEPT ![Len(below)] = [@ EXCEPT !.current = @ + 1]]

\* the innermost activation starts over with the loop's locals ctx
Again(ctx) == [frames EXCEPT ![Len(frames)] = Frame(Top.block, ctx)]

RunState == [st |-> "run"]

\* self.variables.insert(name, value) of the evaluated expression, and
\* scope.push(name) (interpreter.rs 334-336)
Declare(name, value) ==
    IF value.st # "ok"
    THEN /\ status' = value
         /\ UNCHANGED <<variables, frames>>
    ELSE /\ variables' = MapInsert(variables, name, value.v)
         /\ frames' = Advance(<<name>>)
         /\ UNCHANGED status

\* Parsed::Declaration (interpreter.rs 327-337)
ExecDeclaration ==
    /\ At("Declaration")
    /\ IF get_variable(variables, Stmt.name) # <<>>
       THEN /\ status' = Err("Redeclaration", Stmt.name)
            /\ UNCHANGED <<variables, frames>>
       ELSE Declare(Stmt.name, evaluate_expr(variables, functions, Stmt.expr))
    /\ UNCHANGED <<parsed, functions, out, lexer_vars, pure_vars>>

\* println!("{}", value) of the evaluated expression (interpreter.rs 339-340)
PrintValue(value) ==
    IF value.st # "ok"
    THEN /\ status' = value
         /\ UNCHANGED <<out, frames>>
    ELSE /\ out' = Append(out, data_to_string(value.v))
         /\ frames' = Advance(<<>>)
         /\ UNCHANGED status

\* Parsed::PrintExpr (interpreter.rs 338-341)
ExecPrintExpr ==
    /\ At("PrintExpr")
    /\ PrintValue(evaluate_expr(variables, functions, Stmt.expr))
    /\ UNCHANGED <<parsed, variables, functions, lexer_vars, pure_vars>>

\* Parsed::FunctionDecleration (interpreter.rs 342-362)
ExecFunctionDecleration ==
    /\ At("FunctionDecleration")
    /\ IF function_exits(functions, Stmt.name)
       THEN /\ status' = Err("Redeclaration", Stmt.name)
            /\ UNCHANGED <<functions, frames>>
       ELSE /\ functions' = MapInsert(functions, Stmt.name,
                               [parameters |-> Stmt.parameters, expr |-> Stmt.expr])
            /\ frames' = Advance(<<Stmt.name>>)
            /\ UNCHANGED status
    /\ UNCHANGED <<parsed, variables, out, lexer_vars, pure_vars>>

\* The match on one evaluated bound of a FromLoop (interpreter.rs 364-381):
\* the evaluation's failure, the error for a list, or Ok(float)
bound_value(r) ==
    IF r.st # "ok" THEN r
    ELSE IF r.v.k = "List" THEN Err("FromLoopList", <<>>)
    ELSE r

\* One bound of a FromLoop (interpreter.rs 364-381)
loop_bound(vs, fs, expr) == bound_value(evaluate_expr(vs, fs, expr))

\* The first failure among the bounds and the loop variable of a FromLoop
\* (interpreter.rs 364-385), or Ok
from_loop_failure(min, max, step, ident) ==
    IF min.st # "ok" THEN min
    ELSE IF max.st # "ok" THEN max
    ELSE IF step.st # "ok" THEN step
    ELSE IF ident.e # "Ident" THEN Panic("unreachable")
    ELSE Ok(<<>>)

\* Parsed::FromLoop after its three bounds (interpreter.rs 382-388, 395)
EnterFromLoop(failed, min, max, step) ==
    IF failed.st # "ok"
    THEN /\ status' = failed
         /\ UNCHANGED <<variables, frames>>
    ELSE IF f64_le(min.v, max.v)
    THEN /\ variables' = MapInsert(variables, Stmt.ident.name, min.v)
         /\ frames' = Append(frames,
               Frame(Stmt.block,
                     [c |-> "FromLoop", name |-> Stmt.ident.name,
                      i |-> min.v, max |-> max.v, step |-> step.v]))
         /\ UNCHANGED status
    ELSE /\ variables' = MapRemove(variables, Stmt.ident.name)
         /\ frames' = Advance(<<>>)
         /\ UNCHANGED status

\* The three bounds of a FromLoop, evaluated (interpreter.rs 364-381)
FromLoopBounds(min, max, step) ==
    EnterFromLoop(from_loop_failure(min, max, step, Stmt.ident), min, max, step)

\* Parsed::FromLoop up to the first call of execute_block, or to its end
\* when the body never runs (interpreter.rs 363-388, 395)
ExecFromLoop ==
    /\ At("FromLoop")
    /\ FromLoopBounds(loop_bound(variables, functions, Stmt.min),
                      loop_bound(variables, functions, Stmt.max),
                      loop_bound(variables, functions, Stmt.step))
    /\ UNCHANGED <<parsed, functions, out, lexer_vars, pure_vars>>

\* Parsed::FromLoop from the return of execute_block (interpreter.rs
\* 388-395): clean_scope, i += step, the update of the loop variable if it
\* is still there, then the next iteration or the end of the loop
ReturnFromLoop ==
    /\ Returning("FromLoop")
    /\ LET c == Top.ctx
           i == f64_add(c.i, c.step)
           cleaned == clean_scope_map(variables, Top.scope)
           updated == IF c.name \in DOMAIN cleaned
                      THEN [cleaned EXCEPT ![c.name] = i] ELSE cleaned
       IN /\ functions' = clean_scope_map(functions, Top.scope)
          /\ IF f64_le(i, c.max)
             THEN /\ variables' = updated
                  /\ frames' = Again([c EXCEPT !.i = i])
             ELSE /\ variables' = MapRemove(updated, c.name)
                  /\ frames' = Return
    /\ UNCHANGED <<parsed, out, status, lexer_vars, pure_vars>>

\* Parsed::Block up to its call of execute_block (interpreter.rs 397-398)
ExecBlock ==
    /\ At("Block")
    /\ frames' = Append(frames, Frame(Stmt.block, [c |-> "Block"]))
    /\ UNCHANGED <<parsed, variables, functions, out, status, lexer_vars, pure_vars>>

\* Parsed::Block from the return of execute_block (interpreter.rs 398-399)
ReturnBlock ==
    /\ Returning("Block")
    /\ variables' = clean_scope_map(variables, Top.scope)
    /\ functions' = clean_scope_map(functions, Top.scope)
    /\ frames' = Return
    /\ UNCHANGED <<parsed, out, status, lexer_vars, pure_vars>>

\* The first failure of a ForLoop before its body (interpreter.rs
\* 402-410), or Ok
for_loop_failure(list, ident) ==
    IF list.st # "ok" THEN list
    ELSE IF list.v.k = "Float" THEN Err("ExpectedList", <<>>)
    ELSE IF ident.e # "Ident" THEN Err("ExpectedIdent", <<>>)
    ELSE IF list.v.items = <<>> THEN Panic("unwrap on None")
    ELSE Ok(<<>>)

\* Parsed::ForLoop after its list (interpreter.rs 410-412, 418)
EnterForLoop(failed, list) ==
    IF failed.st # "ok"
    THEN /\ status' = failed
         /\ UNCHANGED <<variables, frames>>
    ELSE IF Len(list.v.items) > 1
    THEN /\ variables' = MapInsert(variables, Stmt.ident.name, list.v.items[1])
         /\ frames' = Append(frames,
               Frame(Stmt.block,
                     [c |-> "ForLoop", name |-> Stmt.ident.name,
                      list |-> list.v.items, at |-> 2]))
         /\ UNCHANGED status
    ELSE /\ variables' = MapRemove(variables, Stmt.ident.name)
         /\ frames' = Advance(<<>>)
         /\ UNCHANGED status

\* The list of a ForLoop, evaluated (interpreter.rs 402)
ForLoopList(list) == EnterForLoop(for_loop_failure(list, Stmt.ident), list)

\* Parsed::ForLoop up to the first call of execute_block, or to its end
\* when the list has one element (interpreter.rs 401-412, 418)
ExecForLoop ==
    /\ At("ForLoop")
    /\ ForLoopList(evaluate_expr(variables, functions, Stmt.list))
    /\ UNCHANGED <<parsed, functions, out, lexer_vars, pure_vars>>

\* Parsed::ForLoop from the return of execute_block (interpreter.rs
\* 412-418); ctx.at is the position in the list of `data`
ReturnForLoop ==
    /\ Returning("ForLoop")
    /\ LET c == Top.ctx
           cleaned == clean_scope_map(variables, Top.scope)
           updated == IF c.name \in DOMAIN cleaned
                      THEN [cleaned EXCEPT ![c.name] = c.list[c.at]] ELSE cleaned
       IN /\ functions' = clean_scope_map(functions, Top.scope)
          /\ IF c.at < Len(c.list)
             THEN /\ variables' = updated
                  /\ frames' = Again([c EXCEPT !.at = @ + 1])
             ELSE /\ variables' = MapRemove(updated, c.name)
                  /\ frames' = Return
    /\ UNCHANGED <<parsed, out, status, lexer_vars, pure_vars>>

RECURSIVE destructure(_, _, _, _, _)

\* A destructuring that ends after its first binding.  C8 depends on the
\* loop over all pairs.
destructure_first(vs, fs, left_exprs, right_exprs, k, data) ==
    IF data.st # "ok" THEN [variables |-> vs, res |-> data]
    ELSE [variables |-> MapInsert(vs, left_exprs[k].name, data.v),
          res |-> Ok(<<>>)]

\* self.variables.insert(name, data) of the evaluated k-th right side
\* (interpreter.rs 438-439) and the next pair
destructure_insert(vs, fs, left_exprs, right_exprs, k, data) ==
    IF data.st # "ok" THEN [variables |-> vs, res |-> data]
    ELSE destructure(MapInsert(vs, left_exprs[k].name, data.v), fs,
                     left_exprs, right_exprs, k + 1)

\* The loop of Parsed::Destructuring (interpreter.rs 430-441) from its k-th
\* pair: the variables when it ends, and how it ends
destructure(vs, fs, left_exprs, right_exprs, k) ==
    IF k > Len(left_exprs) THEN [variables |-> vs, res |-> Ok(<<>>)]
    ELSE IF left_exprs[k].e # "Ident"
    THEN [variables |-> vs, res |-> Err("OnlyIdents", <<>>)]
    ELSE IF left_exprs[k].name \in DOMAIN vs
    THEN [variables |-> vs, res |-> Err("Redeclaration", left_exprs[k].name)]
    ELSE destructure_insert(vs, fs, left_exprs, right_exprs, k,
                            evaluate_expr(vs, fs, right_exprs[k]))

\* The end of the loop of Parsed::Destructuring (interpreter.rs 430-441)
Destructured(d) ==
    /\ variables' = d.variables
    /\ IF d.res.st # "ok"
       THEN status' = d.res /\ UNCHANGED frames
       ELSE frames' = Advance(<<>>) /\ UNCHANGED status

\* Parsed::Destructuring (interpreter.rs 420-442)
ExecDestructuring ==
    /\ At("Destructuring")
    /\ IF Stmt.left.e # "List" \/ Stmt.right.e # "List"
       THEN /\ status' = Err("SomeError", <<>>)
            /\ UNCHANGED <<variables, frames>>
       ELSE IF Len(Stmt.left.exprs) # Len(Stmt.right.exprs)
       THEN /\ status' = Err("TooFewIdents", <<>>)
            /\ UNCHANGED <<variables, frames>>
       ELSE Destructured(destructure(variables, functions, Stmt.left.exprs,
                                     Stmt.right.exprs, 1))
    /\ UNCHANGED <<parsed, functions, out, lexer_vars, pure_vars>>

\* Interpreter::interpret from the return of execute_block (interpreter.rs
\* 452-455)
ReturnInterpret ==
    /\ Returning("interpret")
    /\ variables' = clean_scope_map(variables, Top.scope)
    /\ functions' = clean_scope_map(functions, Top.scope)
    /\ frames' = <<>>
    /\ status' = [st |-> "ok"]
    /\ UNCHANGED <<parsed, out, lexer_vars, pure_vars>>

(***************************************************************************)
(* Idle values of the state a specification does not use.                  *)
(***************************************************************************)
LexerIdle ==
    /\ content = <<>> /\ index = 0 /\ tokens = <<>>
    /\ col = 0 /\ line = 0 /\ lex_st = "idle"

PureIdle == call = None /\ ret = None

InterpIdle ==
    /\ parsed = <<>> /\ variables = <<>> /\ functions = <<>>
    /\ frames = <<>> /\ out = <<>> /\ status = [st |-> "idle"]

(***************************************************************************)
(* apply_op applied to every pair of Data values of at most MaxSize nodes  *)
(* (a scalar or a list is one node) over the scalars 2 and 3.              *)
(***************************************************************************)
MaxSize == 4

ApplyScalars == {Num(2), Num(3)}

RECURSIVE DataOfSize(_), ItemsOfSize(_)
DataOfSize(n) ==
    (IF n = 1 THEN ApplyScalars ELSE {})
        \cup {List(items) : items \in ItemsOfSize(n - 1)}

ItemsOfSize(m) ==
    IF m = 0 THEN {<<>>}
    ELSE UNION {{<<x>> \o rest : x \in DataOfSize(s), rest \in ItemsOfSize(m - s)}
                   : s \in 1..m}

ApplyData == UNION {DataOfSize(n) : n \in 1..MaxSize}

InitApply ==
    /\ call \in [fn : {"apply_op"}, left : ApplyData, right : ApplyData,
                 op : {Operators[i] : i \in DOMAIN Operators}]
    /\ ret = None
    /\ LexerIdle /\ InterpIdle

ApplyOp ==
    /\ call.fn = "apply_op" /\ ret = None
    /\ ret' = apply_op(call.left, call.right, call.op)
    /\ UNCHANGED <<call, lexer_vars, interp_vars>>

NextApply == ApplyOp

SpecApply == InitApply /\ [][NextApply]_vars

Applied == call.fn = "apply_op" /\ ret # None

\* C6: broadcasting.  Once apply_op(left, right, op) has returned: for a
\* scalar and a list of length n (either order) the result is a list of
\* length n whose i-th element is apply_op of the scalar and the i-th element
\* in the operands' order; for two lists of equal length the result is a
\* list exactly when every elementwise application succeeds, and its i-th
\* element is then apply_op(left[i], right[i], op).
C6_Broadcast ==
    Applied =>
      LET l == call.left
          r == call.right
          op == call.op
      IN /\ (l.k = "Float" /\ r.k = "List") =>
                /\ ret.st = "ok" /\ ret.v.k = "List"
                /\ Len(ret.v.items) = Len(r.items)
                /\ \A i \in 1..Len(r.items) :
                      Ok(ret.v.items[i]) = apply_op(l, r.items[i], op)
         /\ (l.k = "List" /\ r.k = "Float") =>
                /\ ret.st = "ok" /\ ret.v.k = "List"
                /\ Len(ret.v.items) = Len(l.items)
                /\ \A i \in 1..Len(l.items) :
                      Ok(ret.v.items[i]) = apply_op(l.items[i], r, op)
         /\ (l.k = "List" /\ r.k = "List" /\ Len(l.items) = Len(r.items)) =>
                /\ ret.st = "ok" <=>
                      \A i \in 1..Len(l.items) :
                          apply_op(l.items[i], r.items[i], op).st = "ok"
                /\ ret.st = "ok" =>
                      /\ ret.v.k = "List" /\ Len(ret.v.items) = Len(l.items)
                      /\ \A i \in 1..Len(l.items) :
                            Ok(ret.v.items[i])
                                = apply_op(l.items[i], r.items[i], op)
         /\ (l.k = "Float" /\ r.k = "Float") => ret = Ok(scalar_op(l, r, op))

\* C6 witness: 2 - [3, [2]] has returned [-1, [0]]: a scalar broadcast on
\* the left of a nested list, the operand order kept.
C6_Witness ==
    /\ Applied
    /\ call.left = Num(2) /\ call.op = "Minus"
    /\ call.right = List(<<Num(3), List(<<Num(2)>>)>>)
    /\ ret = Ok(List(<<Num(-1), List(<<Num(0)>>)>>))

RECURSIVE LengthMismatch(_, _)
LengthMismatch(l, r) ==
    /\ l.k = "List" /\ r.k = "List"
    /\ \/ Len(l.items) # Len(r.items)
       \/ \E i \in 1..Len(l.items) : LengthMismatch(l.items[i], r.items[i])

\* C7: applying an operator to two lists whose lengths differ at some
\* nesting level returns the InvalidListLength error.
C7_MismatchReturnsErr ==
    (Applied /\ LengthMismatch(call.left, call.right))
        => ret = Err("InvalidListLength", "")


(***************************************************************************)
(* The lexer run on every text of at most MaxLexLen characters over        *)
(* LexAlphabet.                                                            *)
(***************************************************************************)
MaxLexLen == 4

LexAlphabet == {"5", ".", "_", "a", " ", "\n", "+", "@"}

LexInputs == UNION {[1..n -> LexAlphabet] : n \in 0..MaxLexLen}

InitLex ==
    /\ content \in LexInputs
    /\ index = 0 /\ tokens = <<>> /\ col = 0 /\ line = 0 /\ lex_st = "run"
    /\ PureIdle /\ InterpIdle

NextLex ==
    \/ LexNewline
    \/ LexWhitespace
    \/ LexText
    \/ LexFloat
    \/ LexSymbol
    \/ LexDone

SpecLex == InitLex /\ [][NextLex]_vars

\* A numeral: it starts with a digit or '.', has a digit, and is made of
\* digits, '_' separators and at most one '.'.
IsNumeral(s) ==
    /\ s # <<>>
    /\ \E i \in DOMAIN s : is_digit(s[i])
    /\ is_digit(s[1]) \/ s[1] = "."
    /\ \A i \in DOMAIN s : is_digit(s[i]) \/ s[i] = "_" \/ s[i] = "."
    /\ Cardinality({i \in DOMAIN s : s[i] = "."}) <= 1

\* C9: for a numeral, tokenize emits one FloatLiteral token whose text has
\* no underscore, exactly one '.', and a digit on each side of it.
C9_CanonicalNumeral ==
    (lex_st = "ok" /\ IsNumeral(content)) =>
        /\ Len(tokens) = 1
        /\ tokens[1].type = "FloatLiteral"
        /\ LET text == tokens[1].text
           IN /\ ~Contains(text, "_")
              /\ Cardinality({i \in DOMAIN text : text[i] = "."}) = 1
              /\ Len(text) >= 3
              /\ is_digit(text[1]) /\ is_digit(text[Len(text)])

\* Lexer::tokenize is a sequential loop: it goes on while it can.
SpecLexLive == SpecLex /\ WF_vars(NextLex)

\* two '.' with nothing but digits and '_' between them: a numeral with a
\* second '.'
SecondPeriod(s) ==
    \E i, j \in DOMAIN s :
        /\ i < j /\ s[i] = "." /\ s[j] = "."
        /\ \A m \in (i + 1)..(j - 1) : is_digit(s[m]) \/ s[m] = "_"

\* a character no rule of the lexer is for
Unmatched(c) ==
    /\ ~is_ascii_alphabetic(c) /\ ~is_digit(c) /\ ~is_whitespace(c)
    /\ c \notin {"_", ".", "=", "+", "-", "*", ",", "/", "#", "(", ")", "{", "}",
                 "[", "]", "^"}

IsUnknownToken(t) == t.type = "Unknown"

\* the characters the Unknown tokens of toks hold, in order
UnknownChars(toks) ==
    [i \in 1..Len(SelectSeq(toks, IsUnknownToken)) |->
        SelectSeq(toks, IsUnknownToken)[i].text[1]]

\* C15: tokenize fails only when a numeral has a second '.'; on every other
\* text it ends with success, and the Unknown tokens of its output hold
\* exactly the characters no lexer rule matches, in their order.
C15_TokenizeTotal ==
    /\ [](lex_st = "err" => SecondPeriod(content))
    /\ [](lex_st = "ok" =>
            /\ ~SecondPeriod(content)
            /\ UnknownChars(tokens) = SelectSeq(content, Unmatched))
    /\ <>(lex_st \in {"ok", "err"})

\* C15 witness: 5@.5 has been tokenized without failure into 5.0, the
\* Unknown token of '@', and 0.5.
C15_Witness ==
    /\ lex_st = "ok"
    /\ content = <<"5", "@", ".", "5">>
    /\ Len(tokens) = 3
    /\ tokens[1].text = <<"5", ".", "0">>
    /\ tokens[2].type = "Unknown" /\ tokens[2].text = <<"@">>
    /\ tokens[3].text = <<"0", ".", "5">>

\* the newlines among the first i characters of the source
NewlinesBefore(i) == {m \in 1..i : content[m] = "\n"}

\* the characters between the last newline among the first i characters and
\* the character after them
CharsOnLineBefore(i) ==
    i - (IF NewlinesBefore(i) = {} THEN 0
         ELSE CHOOSE m \in NewlinesBefore(i) : \A k \in NewlinesBefore(i) : k <= m)

MaxOps == 4

Tok(type, text) == Token(type, text, 0, 0)

OperatorTokens == {"Plus", "Minus", "Multi", "Div", "Circumflex"}

LiteralText(k) == <<DigitChars[k + 1], ".", "0">>

\* lit1 op1 lit2 op2 ... for the operator token types ops
FlatExpr(ops) ==
    [j \in 1..(2 * Len(ops) + 1) |->
        IF j % 2 = 1 THEN Tok("FloatLiteral", LiteralText((j + 1) \div 2))
        ELSE Tok(ops[j \div 2], <<>>)]

InitParseExpr ==
    /\ \E n \in 0..MaxOps : \E ops \in [1..n -> OperatorTokens] :
          call = [fn |-> "parse_expr", tokens |-> FlatExpr(ops)]
    /\ ret = None
    /\ LexerIdle /\ InterpIdle

ParseExpr ==
    /\ call.fn = "parse_expr" /\ ret = None
    /\ ret' = parse_expr(call.tokens, 0, 1)
    /\ UNCHANGED <<call, lexer_vars, interp_vars>>

NextParseExpr == ParseExpr

SpecParseExpr == InitParseExpr /\ [][NextParseExpr]_vars

\* The tiers of the claim: 1 for + -, 2 for * /, 3 for ^
Tier(type) ==
    CASE type \in {"Plus", "Minus"} -> 1
      [] type \in {"Multi", "Div"} -> 2
      [] type = "Circumflex" -> 3

\* The tree of a flat token sequence in which higher tiers bind tighter and
\* equal tiers associate to the left: split at the last operator of the
\* lowest tier present.
RECURSIVE TreeOf(_)
TreeOf(toks) ==
    IF Len(toks) = 1 THEN FloatLiteral(toks[1].text)
    ELSE LET opsAt == {j \in DOMAIN toks : j % 2 = 0}
             low == CHOOSE t \in 1..3 :
                        /\ \E j \in opsAt : Tier(toks[j].type) = t
                        /\ \A j \in opsAt : Tier(toks[j].type) >= t
             at == CHOOSE j \in opsAt :
                        /\ Tier(toks[j].type) = low
                        /\ \A m \in opsAt : Tier(toks[m].type) = low => m <= j
         IN BinExpr(TreeOf(SubSeq(toks, 1, at - 1)),
                    token_operator(toks[at].type),
                    TreeOf(SubSeq(toks, at + 1, Len(toks))))

\* C1: parse_expr of an expression of float literals and binary operators
\* consumes it whole and builds the tree in which ^ binds tighter than * /,
\* these tighter than + -, and equal tiers associate to the left.
C1_Precedence ==
    (call.fn = "parse_expr" /\ ret # None) =>
        ret = POk(TreeOf(call.tokens), Len(call.tokens))

\* C1 witness: 1 + 2 * 3 ^ 4 ^ 5 has been parsed as 1 + (2 * ((3 ^ 4) ^ 5)).
C1_Witness ==
    /\ call.fn = "parse_expr"
    /\ call.tokens = FlatExpr(<<"Plus", "Multi", "Circumflex", "Circumflex">>)
    /\ ret # None /\ ret.st = "ok"
    /\ ret.expr =
          BinExpr(FloatLiteral(LiteralText(1)), "Plus",
              BinExpr(FloatLiteral(LiteralText(2)), "Multi",
                  BinExpr(BinExpr(FloatLiteral(LiteralText(3)), "Pow",
                                  FloatLiteral(LiteralText(4))),
                          "Pow", FloatLiteral(LiteralText(5)))))


(***************************************************************************)
(* The interpreter run on programs given as the tokens the lexer makes of  *)
(* their text, parsed by parse: a family  pre  compound  post  of at most  *)
(* one top-level statement, at most one block or loop whose body has at    *)
(* most MaxBody statements, and at most one more statement; and the        *)
(* programs of ExamplePrograms.                                            *)
(***************************************************************************)
MaxBody == 2

id(name) == Tok("Ident", <<name>>)
num(text) == Tok("FloatLiteral", text)
kw(word) == Tok("Keyword", word)
sy(type) == Tok(type, <<>>)

NL == sy("Newline")
EQ == sy("Equals")
LP == sy("LeftParen")
RP == sy("RightParen")
LBrace == sy("LeftBrace")
RBrace == sy("RightBrace")
LBracket == sy("LeftBracket")
RBracket == sy("RightBracket")
Comma == sy("Comma")
Plus == sy("Plus")

L0 == <<"0", ".", "0">>
L1 == <<"1", ".", "0">>
L2 == <<"2", ".", "0">>
L3 == <<"3", ".", "0">>
L15 == <<"1", ".", "5">>

\* x = 1.0 | x = 2.0 | x | f(a) = a + a | f(x) | x(a) = a
\* [x, y] = [1.0, 2.0 + 3.0] | [y, x] = [1.0, y] | [PI] = [1.0] | PI = 1.0
\* sin(a) = a | [x] = [1.0, 2.0] | [1.0] = [1.0]
TopLines ==
    <<  <<id("x"), EQ, num(L1)>>,
        <<id("x"), EQ, num(L2)>>,
        <<id("x")>>,
        <<id("f"), LP, id("a"), RP, EQ, id("a"), Plus, id("a")>>,
        <<id("f"), LP, id("x"), RP>>,
        <<id("x"), LP, id("a"), RP, EQ, id("a")>>,
        <<LBracket, id("x"), Comma, id("y"), RBracket, EQ,
          LBracket, num(L1), Comma, num(L2), Plus, num(L3), RBracket>>,
        <<LBracket, id("y"), Comma, id("x"), RBracket, EQ,
          LBracket, num(L1), Comma, id("y"), RBracket>>,
        <<LBracket, Tok("Ident", N_PI), RBracket, EQ, LBracket, num(L1), RBracket>>,
        <<Tok("Ident", N_PI), EQ, num(L1)>>,
        <<Tok("Ident", N_sin), LP, id("a"), RP, EQ, id("a")>>,
        <<LBracket, id("x"), RBracket, EQ,
          LBracket, num(L1), Comma, num(L2), RBracket>>,
        <<LBracket, num(L1), RBracket, EQ, LBracket, num(L1), RBracket>>  >>

\* the statements after the block or loop: x = 2.0 | x | f(x) | y
\* [x, y] = [1.0, 2.0 + 3.0] | f(a) = a + a
PostLines ==
    <<  TopLines[2], TopLines[3], TopLines[5], <<id("y")>>, TopLines[7],
        TopLines[4]  >>

\* x = 1.0 | y = x | i | f(a) = a + a | i(a) = a
BodyLines ==
    <<  TopLines[1],
        <<id("y"), EQ, id("x")>>,
        <<id("i")>>,
        TopLines[4],
        <<id("i"), LP, id("a"), RP, EQ, id("a")>>  >>

\* {  |  from 0.0 to 1.0 as i {  |  for i in [1.0, 2.0, 3.0] {
Headers ==
    <<  <<LBrace>>,
        <<kw(W_from), num(L0), kw(W_to), num(L1), kw(W_as), id("i"), LBrace>>,
        <<kw(W_for), id("i"), kw(W_in),
          LBracket, num(L1), Comma, num(L2), Comma, num(L3), RBracket, LBrace>>  >>

\* each line followed by a newline
RECURSIVE Lines(_)
Lines(ls) == IF ls = <<>> THEN <<>> ELSE Head(ls) \o <<NL>> \o Lines(Tail(ls))

Opt(ls) == {<<>>} \cup {<<ls[j]>> : j \in DOMAIN ls}

Bodies == UNION {[1..n -> {BodyLines[j] : j \in DOMAIN BodyLines}] : n \in 0..MaxBody}

Compounds ==
    {<<>>} \cup {Headers[h] \o <<NL>> \o Lines(body) \o <<RBrace, NL>> :
                    h \in DOMAIN Headers, body \in Bodies}

FamilyPrograms ==
    {Lines(pre) \o c \o Lines(post) :
        pre \in Opt(TopLines), c \in Compounds, post \in Opt(PostLines)}

\* f(x) = x + x            \* f(r) = PI * r ^ 2.0
\* y = 3.0                 \* f(2.0)
\* f(y)
Example_double ==
    Lines(<< <<id("f"), LP, id("x"), RP, EQ, id("x"), Plus, id("x")>>,
             <<id("y"), EQ, num(L3)>>,
             <<id("f"), LP, id("y"), RP>> >>)

Example_area ==
    Lines(<< <<id("f"), LP, id("r"), RP, EQ, Tok("Ident", N_PI), sy("Multi"),
               id("r"), sy("Circumflex"), num(L2)>>,
             <<id("f"), LP, num(L2), RP>> >>)

\* g(a) = a + 1.0          \* f(x) = [x, x * x]
\* f(x) = g(x)             \* f(3.0)
\* f(2.0)
Example_nested_call ==
    Lines(<< <<id("g"), LP, id("a"), RP, EQ, id("a"), Plus, num(L1)>>,
             <<id("f"), LP, id("x"), RP, EQ, id("g"), LP, id("x"), RP>>,
             <<id("f"), LP, num(L2), RP>> >>)

Example_list_body ==
    Lines(<< <<id("f"), LP, id("x"), RP, EQ, LBracket, id("x"), Comma,
               id("x"), sy("Multi"), id("x"), RBracket>>,
             <<id("f"), LP, num(L3), RP>> >>)

\* from 0.0 to 3.0 as i with step 1.5 {
\*
\*     i
\* }
\* i
Example_from_step ==
    <<kw(W_from), num(L0), kw(W_to), num(L3), kw(W_as), id("i"),
      kw(W_with), kw(W_step), num(L15), LBrace, NL, NL, id("i"), NL, RBrace, NL,
      id("i"), NL>>

\* from 3.0 to 0.0 as i {
\*     i
\* }
Example_from_empty ==
    <<kw(W_from), num(L3), kw(W_to), num(L0), kw(W_as), id("i"), LBrace, NL,
      id("i"), NL, RBrace, NL>>

\* from 0.0 to 1.0 as i {
\*     from 0.0 to 0.0 as i {
\*     }
\*     i
\* }
Example_from_nested ==
    <<kw(W_from), num(L0), kw(W_to), num(L1), kw(W_as), id("i"), LBrace, NL,
      kw(W_from), num(L0), kw(W_to), num(L0), kw(W_as), id("i"), LBrace, NL,
      RBrace, NL, id("i"), NL, RBrace, NL>>

\* [1.0, 2.0, 3.0] + [1.0, 2.0]      \* [[1.0, 2.0], [3.0]] + [[1.0], [3.0]]
Example_lengths ==
    <<LBracket, num(L1), Comma, num(L2), Comma, num(L3), RBracket, Plus,
      LBracket, num(L1), Comma, num(L2), RBracket, NL>>

Example_nested_lengths ==
    <<LBracket, LBracket, num(L1), Comma, num(L2), RBracket, Comma,
      LBracket, num(L3), RBracket, RBracket, Plus,
      LBracket, LBracket, num(L1), RBracket, Comma,
      LBracket, num(L3), RBracket, RBracket, NL>>

\* for i in [] {            \* x = 1.0             \* f(a) = a + a
\*     x                    \* {                   \* {
\* }                        \*     x(a) = a        \*     f = 1.0
\*                          \* }                   \* }
\*                          \* x                   \* f(2.0)
Example_for_empty ==
    <<kw(W_for), id("i"), kw(W_in), LBracket, RBracket, LBrace, NL,
      id("x"), NL, RBrace, NL>>

Example_outer_variable ==
    Lines(<<TopLines[1]>>) \o <<LBrace, NL>> \o Lines(<<TopLines[6]>>)
        \o <<RBrace, NL>> \o Lines(<<TopLines[3]>>)

Example_outer_function ==
    Lines(<<TopLines[4]>>) \o <<LBrace, NL>> \o Lines(<< <<id("f"), EQ, num(L1)>> >>)
        \o <<RBrace, NL>> \o Lines(<< <<id("f"), LP, num(L2), RP>> >>)

\* i = 3.0
\* from 0.0 to 1.0 as i {
\* }
\* i
Example_outer_loop_variable ==
    Lines(<< <<id("i"), EQ, num(L3)>> >>)
        \o Headers[2] \o <<NL, RBrace, NL>> \o Lines(<< <<id("i")>> >>)

ExamplePrograms ==
    {Example_double, Example_area, Example_nested_call, Example_list_body,
     Example_from_step, Example_from_empty, Example_from_nested,
     Example_lengths, Example_nested_lengths,
     Example_for_empty, Example_outer_variable, Example_outer_function,
     Example_outer_loop_variable}

Programs == FamilyPrograms \cup ExamplePrograms

\* fn main (main.rs 36-52): parse, and on success Interpreter::new and
\* interpret up to its call of execute_block
Init ==
    /\ call \in [fn : {"parse"}, tokens : Programs]
    /\ ret = parse(call.tokens)
    /\ IF ret.st = "ok"
       THEN /\ parsed = ret.parsed
            /\ frames = <<Frame(ret.parsed, [c |-> "interpret"])>>
            /\ status = RunState
       ELSE /\ parsed = <<>>
            /\ frames = <<>>
            /\ status = [st |-> "noparse"]
    /\ variables = <<>> /\ functions = <<>> /\ out = <<>>
    /\ LexerIdle

Next ==
    \/ ExecDeclaration
    \/ ExecPrintExpr
    \/ ExecFunctionDecleration
    \/ ExecFromLoop
    \/ ReturnFromLoop
    \/ ExecBlock
    \/ ReturnBlock
    \/ ExecForLoop
    \/ ReturnForLoop
    \/ ExecDestructuring
    \/ ReturnInterpret

Spec == Init /\ [][Next]_vars

\* The body of function_ with every occurrence of a parameter name replaced
\* by the argument at the parameter's position: as an operand, as a list
\* element, and inside the arguments of a nested call.
RECURSIVE Substituted(_, _, _)
Substituted(parameters, args, expr) ==
    CASE expr.e = "Ident" ->
            IF zip_lookup(parameters, args, expr.name) # <<>>
            THEN zip_lookup(parameters, args, expr.name)[1]
            ELSE expr
      [] expr.e = "FunctionCall" ->
            FunctionCall(expr.name,
                [i \in DOMAIN expr.args |->
                    Substituted(parameters, args, expr.args[i])])
      [] expr.e = "Expr" ->
            BinExpr(Substituted(parameters, args, expr.left), expr.op,
                    Substituted(parameters, args, expr.right))
      [] expr.e = "List" ->
            ListExpr([i \in DOMAIN expr.exprs |->
                         Substituted(parameters, args, expr.exprs[i])])
      [] OTHER -> expr

\* a statement that prints a call of a declared function with as many
\* arguments as the function has parameters
AtUserCall ==
    /\ At("PrintExpr")
    /\ Stmt.expr.e = "FunctionCall"
    /\ Stmt.expr.name \notin {N_sin, N_cos, N_tan}
    /\ Stmt.expr.name \in DOMAIN functions
    /\ Len(Stmt.expr.args) = Len(functions[Stmt.expr.name].parameters)

\* C2: a call of a user-defined function with as many arguments as
\* parameters evaluates to the value of the function's body in which every
\* occurrence of a parameter (operand, list element, argument of a nested
\* call) is replaced by the argument expression at its position: the
\* statement prints that value, or fails as that evaluation fails.
C2_CallIsSubstitutedBody ==
    [][AtUserCall =>
          LET f == functions[Stmt.expr.name]
              value == evaluate_expr(variables, functions,
                           Substituted(f.parameters, Stmt.expr.args, f.expr))
          IN IF value.st = "ok"
             THEN out' = Append(out, data_to_string(value.v))
             ELSE status' = value]_vars

\* the names of the declarations a block holds directly
DeclaredVariables(block) ==
    {block[j].name : j \in {m \in DOMAIN block : block[m].p = "Declaration"}}

DeclaredFunctions(block) ==
    {block[j].name : j \in {m \in DOMAIN block : block[m].p = "FunctionDecleration"}}

\* the body of a nested block, or one iteration of a loop body, has finished
BodyFinished ==
    Returning("Block") \/ Returning("FromLoop") \/ Returning("ForLoop")

\* C3: when a nested block has finished, and when an iteration of a loop
\* body has finished, no variable and no function declared directly in that
\* body is left in the namespace, and a reference to such a variable fails
\* with UndefinedVariable.
C3_ScopeCleanup ==
    [][BodyFinished =>
          /\ \A name \in DeclaredVariables(Top.block) \cup DeclaredFunctions(Top.block) :
                /\ name \notin DOMAIN variables'
                /\ name \notin DOMAIN functions'
          /\ \A name \in DeclaredVariables(Top.block) :
                evaluate_expr(variables', functions', Ident(name))
                    = Err("UndefinedVariable", name)]_vars

\* {              x resolved inside the block (y = x), and the reference
\*     x = 1.0    to x right after the block has failed.
\*     y = x
\* }
\* x
C3_Program ==
    <<LBrace, NL>> \o Lines(<<BodyLines[1], BodyLines[2]>>) \o <<RBrace, NL>>
        \o Lines(<<TopLines[3]>>)

\* C3 witness: the block of C3_Program has finished, its x and y are gone,
\* and the statement after it has failed with UndefinedVariable x.
C3_Witness ==
    /\ call.tokens = C3_Program
    /\ frames # <<>> /\ Top.ctx.c = "interpret" /\ Top.current = 1
    /\ variables = <<>>
    /\ status = Err("UndefinedVariable", <<"x">>)

\* the statement before the current one is a block or a loop whose body
\* holds a declaration of name
AfterBodyDeclaring(name) ==
    /\ Top.current > 0
    /\ LET before == Top.block[Top.current]
       IN /\ before.p \in {"Block", "FromLoop", "ForLoop"}
          /\ name \in DeclaredVariables(before.block)
                        \cup DeclaredFunctions(before.block)

\* C4: a declaration of a variable whose name is bound as a variable, and a
\* declaration of a function whose name names a function (sin, cos, tan
\* included), fail with Redeclaration and change no binding; a declaration
\* of a name that the block or loop just finished had declared is not a
\* redeclaration: it binds the name.
C4_Redeclaration ==
    [][/\ (At("Declaration") /\ Stmt.name \in DOMAIN variables) =>
             /\ status' = Err("Redeclaration", Stmt.name)
             /\ UNCHANGED <<variables, functions>>
       /\ (At("FunctionDecleration")
              /\ Stmt.name \in DOMAIN functions \cup {N_sin, N_cos, N_tan}) =>
             /\ status' = Err("Redeclaration", Stmt.name)
             /\ UNCHANGED <<variables, functions>>
       /\ (At("Declaration") /\ AfterBodyDeclaring(Stmt.name)
              /\ evaluate_expr(variables, functions, Stmt.expr).st = "ok") =>
             /\ status' = RunState
             /\ Stmt.name \in DOMAIN variables'
             /\ Ok(variables'[Stmt.name])
                    = evaluate_expr(variables, functions, Stmt.expr)
       /\ (At("FunctionDecleration") /\ AfterBodyDeclaring(Stmt.name)) =>
             /\ status' = RunState
             /\ Stmt.name \in DOMAIN functions'
             /\ functions'[Stmt.name]
                    = [parameters |-> Stmt.parameters, expr |-> Stmt.expr]
      ]_vars

\* {              the block has declared x and has been cleaned up; the
\*     x = 1.0    declaration of x after it has bound x to 2.
\* }
\* x = 2.0
C4_Program ==
    <<LBrace, NL>> \o Lines(<<BodyLines[1]>>) \o <<RBrace, NL>>
        \o Lines(<<TopLines[2]>>)

\* C4 witness: after the block of C4_Program, x = 2.0 has been executed
\* and x is 2.
C4_Witness ==
    /\ call.tokens = C4_Program
    /\ status = RunState
    /\ frames # <<>> /\ Top.ctx.c = "interpret" /\ Top.current = 2
    /\ variables = MapInsert(<<>>, <<"x">>, Num(2))

\* C5: at the start of each iteration of a counted loop the loop variable
\* is bound to the value of that iteration.
C5_LoopVariableBound ==
    (Running /\ Top.ctx.c = "FromLoop" /\ Top.current = 0) =>
        /\ Top.ctx.name \in DOMAIN variables
        /\ variables[Top.ctx.name] = Top.ctx.i

\* the environment after the first k pairs of a destructuring have been
\* bound from left to right, each right side evaluated in the environment
\* the pairs before it have made
RECURSIVE BoundPairs(_, _, _, _, _)
BoundPairs(vs, fs, left, right, k) ==
    IF k = 0 THEN vs
    ELSE MapInsert(BoundPairs(vs, fs, left, right, k - 1), left[k].name,
                   evaluate_expr(BoundPairs(vs, fs, left, right, k - 1), fs,
                                 right[k]).v)

\* the k-th pair of a destructuring fails in the environment vs
PairFails(vs, fs, left, right, k) ==
    \/ left[k].e # "Ident"
    \/ left[k].name \in DOMAIN vs
    \/ evaluate_expr(vs, fs, right[k]).st # "ok"

\* the pairs that fail after the pairs before them have been bound
FailingPairs(vs, fs, left, right) ==
    {k \in DOMAIN left :
        /\ \A j \in 1..(k - 1) :
              ~PairFails(BoundPairs(vs, fs, left, right, j - 1), fs, left, right, j)
        /\ PairFails(BoundPairs(vs, fs, left, right, k - 1), fs, left, right, k)}

C10_ReservedNeverBound ==
    DOMAIN variables \cap {N_PI, N_TAU, N_GLR} = {}

\* C18: a list-iteration loop whose list evaluates to the empty list ends
\* the run with an error value, and its body is not entered.
C18_EmptyListIsError ==
    [][(At("ForLoop")
          /\ evaluate_expr(variables, functions, Stmt.list) = Ok(List(<<>>)))
         => (status'.st = "err" /\ UNCHANGED frames)]_vars

\* C19: each run of the body of a list-iteration loop starts with the loop
\* variable bound to the element of the run: the k-th run sees the k-th
\* element of the list.
C19_ForLoopVariableBound ==
    (Running /\ Top.ctx.c = "ForLoop" /\ Top.current = 0) =>
        /\ Top.ctx.name \in DOMAIN variables
        /\ variables[Top.ctx.name] = Top.ctx.list[Top.ctx.at - 1]

\* the statements executed so far in the activations that are still running
ExecutedStatements ==
    UNION {{frames[d].block[j] : j \in 1..frames[d].current} : d \in DOMAIN frames}

\* C20: what a declaration has bound stays bound as long as the block it
\* stands in runs: the blocks and loops executed after it take away none
\* of the variables and functions bound before them.
C20_OuterBindingsKept ==
    Running =>
        \A stmt \in ExecutedStatements :
            /\ stmt.p = "Declaration" => stmt.name \in DOMAIN variables
            /\ stmt.p = "FunctionDecleration" =>
                  /\ stmt.name \in DOMAIN functions
                  /\ functions[stmt.name]
                        = [parameters |-> stmt.parameters, expr |-> stmt.expr]

\* C22: when interpret has returned success, the namespace holds no
\* variable and no function.
C22_NamespaceEmptyAtEnd ==
    status.st = "ok" => (variables = <<>> /\ functions = <<>>)


(***************************************************************************)
(* evaluate_expr applied to calls and list literals of at most MaxItems    *)
(* arguments or elements, in the namespace the program                     *)
(*     y = 2.0 / f(x) = sin(x) / g(a) = a + 1.0 / h(a, b) = a * b          *)
(* has made.                                                               *)
(***************************************************************************)
MaxItems == 2

EvalVariables == MapInsert(<<>>, <<"y">>, Num(2))

EvalFunctions ==
    MapInsert(
        MapInsert(
            MapInsert(<<>>, <<"f">>,
                [parameters |-> <<<<"x">>>>,
                 expr |-> FunctionCall(N_sin, <<Ident(<<"x">>)>>)]),
            <<"g">>,
            [parameters |-> <<<<"a">>>>,
             expr |-> BinExpr(Ident(<<"a">>), "Plus", FloatLiteral(L1))]),
        <<"h">>,
        [parameters |-> <<<<"a">>, <<"b">>>>,
         expr |-> BinExpr(Ident(<<"a">>), "Multi", Ident(<<"b">>))])

\* 1.0 | y | z (not declared) | [1.0, 2.0]
EvalAtoms ==
    {FloatLiteral(L1), Ident(<<"y">>), Ident(<<"z">>),
     ListExpr(<<FloatLiteral(L1), FloatLiteral(L2)>>)}

\* k() (not declared) | g() | [1.0, 2.0] + [1.0]
EvalFailing ==
    {FunctionCall(<<"k">>, <<>>), FunctionCall(<<"g">>, <<>>),
     BinExpr(ListExpr(<<FloatLiteral(L1), FloatLiteral(L2)>>), "Plus",
             ListExpr(<<FloatLiteral(L1)>>))}

EvalCallees == {N_sin, N_cos, N_tan, <<"f">>, <<"g">>, <<"h">>, <<"k">>}

EvalExprs ==
    {FunctionCall(name, args) :
        name \in EvalCallees,
        args \in UNION {[1..n -> EvalAtoms] : n \in 0..MaxItems}}
    \cup {ListExpr(exprs) :
            exprs \in UNION {[1..n -> EvalAtoms \cup EvalFailing] : n \in 0..MaxItems}}

InitEval ==
    /\ call \in [fn : {"evaluate_expr"}, expr : EvalExprs]
    /\ ret = None
    /\ variables = EvalVariables /\ functions = EvalFunctions
    /\ parsed = <<>> /\ frames = <<>> /\ out = <<>> /\ status = [st |-> "idle"]
    /\ LexerIdle

EvaluateExpr ==
    /\ call.fn = "evaluate_expr" /\ ret = None
    /\ ret' = evaluate_expr(variables, functions, call.expr)
    /\ UNCHANGED <<call, lexer_vars, interp_vars>>

NextEval == EvaluateExpr

SpecEval == InitEval /\ [][NextEval]_vars

Evaluated == call.fn = "evaluate_expr" /\ ret # None

IsBuiltin(name) == name \in {N_sin, N_cos, N_tan}

\* the number of arguments the callee takes
Arity(name) == IF IsBuiltin(name) THEN 1 ELSE Len(functions[name].parameters)

\* C11: a call of sin, cos, tan or of a declared function with a number of
\* arguments that is not the callee's arity (zero arguments for a built-in
\* included) evaluates to the InvalidArguments error.
C11_ArityChecked ==
    (/\ Evaluated /\ call.expr.e = "FunctionCall"
     /\ (IsBuiltin(call.expr.name) \/ call.expr.name \in DOMAIN functions)
     /\ Len(call.expr.args) # Arity(call.expr.name))
        => ret = Err("InvalidArguments", call.expr.name)

\* a declared function whose body is a built-in applied to its one parameter
WrapsBuiltin(name) ==
    /\ name \in DOMAIN functions
    /\ Len(functions[name].parameters) = 1
    /\ functions[name].expr.e = "FunctionCall"
    /\ IsBuiltin(functions[name].expr.name)
    /\ functions[name].expr.args = <<Ident(functions[name].parameters[1])>>

\* C16: with f(x) = sin(x), the call f(a) evaluates to what sin(a)
\* evaluates to.
C16_BuiltinInsideFunction ==
    (/\ Evaluated /\ call.expr.e = "FunctionCall"
     /\ WrapsBuiltin(call.expr.name)
     /\ Len(call.expr.args) = 1)
        => ret = evaluate_expr(variables, functions,
                     FunctionCall(functions[call.expr.name].expr.name,
                                  call.expr.args))

\* the elements of a list literal whose evaluation returns an error
FailingElements(exprs) ==
    {i \in DOMAIN exprs : evaluate_expr(variables, functions, exprs[i]).st = "err"}

\* C17: a list literal with an element whose evaluation returns an error
\* evaluates to the error of the first such element, and to no list value.
C17_ElementErrorReturned ==
    (/\ Evaluated /\ call.expr.e = "List"
     /\ FailingElements(call.expr.exprs) # {})
        => ret = evaluate_expr(variables, functions,
                     call.expr.exprs[CHOOSE i \in FailingElements(call.expr.exprs) :
                         \A j \in FailingElements(call.expr.exprs) : i <= j])


(***************************************************************************)
(* parse applied to programs of at most MaxStatements lines of ParseLines, *)
(* written at top level, in a block, or in the body of a counted loop      *)
(* with or without a step clause and with or without a newline after its   *)
(* '{'.                                                                    *)
(***************************************************************************)
MaxStatements == 2

\* x = 1.0 | f(a) = a + a | x | 1.0 | (1.0) | [1.0]
\* from 0.0 to 1.0 as i {     for i in [1.0] {     {     [x] = [1.0] | # a
\* }                          }                    }
ParseLines ==
    <<  <<id("x"), EQ, num(L1)>>,
        <<id("f"), LP, id("a"), RP, EQ, id("a"), Plus, id("a")>>,
        <<id("x")>>,
        <<num(L1)>>,
        <<LP, num(L1), RP>>,
        <<LBracket, num(L1), RBracket>>,
        <<kw(W_from), num(L0), kw(W_to), num(L1), kw(W_as), id("i"), LBrace, NL,
          RBrace>>,
        <<kw(W_for), id("i"), kw(W_in), LBracket, num(L1), RBracket, LBrace, NL,
          RBrace>>,
        <<LBrace, NL, RBrace>>,
        <<LBracket, id("x"), RBracket, EQ, LBracket, num(L1), RBracket>>,
        <<sy("Comment"), id("a")>>  >>

ParseContexts ==
    {"top", "block", "from", "from_step", "from_inline", "from_step_inline"}

\* from 0.0 to 1.0 as i          with step 1.5
FromHeader == <<kw(W_from), num(L0), kw(W_to), num(L1), kw(W_as), id("i")>>
StepClause == <<kw(W_with), kw(W_step), num(L15)>>

\* the program of the lines ls of ParseLines in the context ctx
ProgramTokens(ctx, ls) ==
    LET body == Lines([j \in DOMAIN ls |-> ParseLines[ls[j]]])
    IN CASE ctx = "top" -> body
         [] ctx = "block" -> <<LBrace, NL>> \o body \o <<RBrace, NL>>
         [] ctx = "from" ->
                FromHeader \o <<LBrace, NL>> \o body \o <<RBrace, NL>>
         [] ctx = "from_step" ->
                FromHeader \o StepClause \o <<LBrace, NL>> \o body \o <<RBrace, NL>>
         [] ctx = "from_inline" ->
                FromHeader \o <<LBrace>> \o body \o <<RBrace, NL>>
         [] ctx = "from_step_inline" ->
                FromHeader \o StepClause \o <<LBrace>> \o body \o <<RBrace, NL>>

InitParse ==
    /\ \E ctx \in ParseContexts :
         \E ls \in UNION {[1..n -> DOMAIN ParseLines] : n \in 0..MaxStatements} :
            call = [fn |-> "parse", ctx |-> ctx, lines |-> ls,
                    tokens |-> ProgramTokens(ctx, ls)]
    /\ ret = None
    /\ LexerIdle /\ InterpIdle

ParseProgram ==
    /\ call.fn = "parse" /\ ret = None
    /\ ret' = parse(call.tokens)
    /\ UNCHANGED <<call, lexer_vars, interp_vars>>

NextParse == ParseProgram

SpecParse == InitParse /\ [][NextParse]_vars

Parsed == call.fn = "parse" /\ ret # None

\* the statement node each line of ParseLines is written for
LineNodes ==
    <<  Declaration(<<"x">>, FloatLiteral(L1)),
        FunctionDecleration(<<"f">>, <<<<"a">>>>,
                            BinExpr(Ident(<<"a">>), "Plus", Ident(<<"a">>))),
        PrintExpr(Ident(<<"x">>)),
        PrintExpr(FloatLiteral(L1)),
        PrintExpr(FloatLiteral(L1)),
        PrintExpr(ListExpr(<<FloatLiteral(L1)>>)),
        FromLoop(FloatLiteral(L0), FloatLiteral(L1), Ident(<<"i">>),
                 FloatLiteral(L1), <<>>),
        ForLoop(Ident(<<"i">>), ListExpr(<<FloatLiteral(L1)>>), <<>>),
        Block(<<>>),
        Destructuring(ListExpr(<<Ident(<<"x">>)>>), ListExpr(<<FloatLiteral(L1)>>))  >>

\* a line of ParseLines that is not a comment
IsStatementLine(j) == ParseLines[j][1].type # "Comment"

\* the lines of ls that are statements
StatementsOf(ls) == SelectSeq(ls, IsStatementLine)

\* the statement nodes of the lines ls, in order
NodesOf(ls) == [j \in DOMAIN StatementsOf(ls) |-> LineNodes[StatementsOf(ls)[j]]]

ParsedOk(nodes) == [st |-> "ok", parsed |-> nodes]

\* C12: a counted loop parses to the FromLoop node of its bounds, its
\* variable, its step (1.0 without a step clause) and, as its body, the
\* nodes of exactly the statements between '{' and '}', whichever token
\* follows '{'.
C12_FromLoopNode ==
    (Parsed /\ call.ctx \in {"from", "from_step", "from_inline", "from_step_inline"})
        => ret = ParsedOk(<<FromLoop(
                     FloatLiteral(L0), FloatLiteral(L1), Ident(<<"i">>),
                     IF call.ctx \in {"from_step", "from_step_inline"}
                     THEN FloatLiteral(L15) ELSE FloatLiteral(L1),
                     NodesOf(call.lines))>>)

\* C13: statements that parse at top level parse in a block body to the
\* same nodes.
C13_BlockParsesAsTopLevel ==
    (/\ Parsed /\ call.ctx = "block"
     /\ call.lines = StatementsOf(call.lines)
     /\ parse(ProgramTokens("top", call.lines)).st = "ok")
        => ret = ParsedOk(<<Block(parse(ProgramTokens("top", call.lines)).parsed)>>)

\* C14: a comment at the start of a statement, at top level or in a block
\* body, is skipped up to the next newline: the program parses as it does
\* without its comment lines.
C14_CommentSkipped ==
    (/\ Parsed /\ call.ctx \in {"top", "block"}
     /\ call.lines # StatementsOf(call.lines))
        => ret = parse(ProgramTokens(call.ctx, StatementsOf(call.lines)))


(***************************************************************************)
(* parse applied to programs of at most MaxStatements statements followed  *)
(* by a line that starts with a token no statement starts with, at top     *)
(* level or in a block.                                                    *)
(***************************************************************************)
\* @ | + | - | * | / | ^ | ) | ] | } | , | = | to | as | with | step | in
StartTokens ==
    {Tok("Unknown", <<"@">>), Plus, sy("Minus"), sy("Multi"), sy("Div"),
     sy("Circumflex"), RP, RBracket, RBrace, Comma, EQ,
     kw(W_to), kw(W_as), kw(W_with), kw(W_step), kw(W_in)}

\* x = 1.0 | f(a) = a + a | x | 1.0
PlainLines == {1, 2, 3, 4}

\* the statements of the lines ls, then a line of the one token start
StartProgram(ctx, ls, start) ==
    LET body == Lines([j \in DOMAIN ls |-> ParseLines[ls[j]]]) \o <<start, NL>>
    IN IF ctx = "top" THEN body
       ELSE <<LBrace, NL>> \o body \o <<RBrace, NL>>

InitParseStart ==
    /\ \E ctx \in {"top", "block"} : \E start \in StartTokens :
         \E ls \in UNION {[1..n -> PlainLines] : n \in 0..MaxStatements} :
            call = [fn |-> "parse", ctx |-> ctx, lines |-> ls, start |-> start,
                    tokens |-> StartProgram(ctx, ls, start)]
    /\ ret = None
    /\ LexerIdle /\ InterpIdle

SpecParseStart == InitParseStart /\ [][NextParse]_vars

\* C21: a token that cannot start a statement, at statement-start position
\* at top level or in a block body, makes parse return a ParseError.
C21_BadStartIsParseError ==
    Parsed => ret.st = "err"

=============================================================================
